---------------------------- MODULE Spec2Model ----------------------------
(***************************************************************************)
(* Model of xenia's shader microcode front end                             *)
(* (src/xenia/gpu/shader_translator.cc): Shader::AnalyzeUcode and its      *)
(* Gather* helpers, the instruction decoders, and the translation driver   *)
(* ShaderTranslator::TranslateAnalyzedShader.                              *)
(*                                                                         *)
(* Representation.  The microcode buffer ucode_data_ is a sequence of      *)
(* 3-dword groups ("triples").  The bit layouts of the packed words live   *)
(* in ucode.h, which is not part of the modelled source, so a triple is    *)
(* represented by the values its accessors return: its view as a pair of   *)
(* control-flow instructions (a, b) and its view as an ALU / vertex-fetch /*)
(* texture-fetch instruction.  Bit masks are sets of bit positions, a      *)
(* packed swizzle field is the tuple of its sub-fields.  Loops of the      *)
(* source are unrolled into one action per iteration.                      *)
(***************************************************************************)
EXTENDS Integers, Sequences, FiniteSets, TLC

(***************************************************************************)
(* Bounds of the model.                                                    *)
(***************************************************************************)
\* Largest microcode buffer, in triples (ucode_data_.size() / 3).
MaxPairs == 3
\* Shader::kMaxMemExports, scaled down so that programs of MaxPairs triples
\* can exceed it.
kMaxMemExports == 2

\* UINT32_MAX as the "no value" marker of the source.
UINT32_MAX == -1

(***************************************************************************)
(* Control-flow instructions.                                              *)
(***************************************************************************)
ExecOpcodes ==
  {"kExec", "kExecEnd", "kCondExec", "kCondExecEnd", "kCondExecPred",
   "kCondExecPredEnd", "kCondExecPredClean", "kCondExecPredCleanEnd"}

IsControlFlowOpcodeExec(opcode) == opcode \in ExecOpcodes

\* One control-flow instruction as its accessors present it.  ctype is the
\* (is_unconditional, is_predicated) pair of a call/jump: "uncond", "pred" or
\* "cond".  sequence is the 12-bit serialize/fetch field of an exec.
CF(opcode, address, count, sequence, bool_address, loop_id, ctype, alloc_type) ==
  [opcode |-> opcode, address |-> address, count |-> count,
   sequence |-> sequence, bool_address |-> bool_address, loop_id |-> loop_id,
   ctype |-> ctype, alloc_type |-> alloc_type]

CfNop == CF("kNop", 0, 0, 0, 0, 0, "uncond", "kNone")
CfExec(opcode, address, count, sequence) ==
  CF(opcode, address, count, sequence, 0, 0, "uncond", "kNone")
CfCondExec(opcode, address, count, sequence, bool_address) ==
  CF(opcode, address, count, sequence, bool_address, 0, "cond", "kNone")
CfLoop(opcode, address, loop_id) ==
  CF(opcode, address, 0, 0, 0, loop_id, "uncond", "kNone")
CfBranch(opcode, address, ctype, bool_address) ==
  CF(opcode, address, 0, 0, bool_address, 0, ctype, "kNone")
CfAlloc(alloc_type) == CF("kAlloc", 0, 0, 0, 0, 0, "uncond", alloc_type)
CfReturn == CF("kReturn", 0, 0, 0, 0, 0, "uncond", "kNone")
CfMarkVsFetchDone == CF("kMarkVsFetchDone", 0, 0, 0, 0, 0, "uncond", "kNone")


(***************************************************************************)
(* Decoded operands and results (InstructionOperand, InstructionResult).   *)
(***************************************************************************)
GetSwizzleFromComponentIndex(i) == <<"x", "y", "z", "w">>[i + 1]

\* InstructionResult::GetUsedWriteMask: the write mask restricted to the
\* components the storage target has.
TargetUsedComponentCount(target) ==
  CASE target = "kNone" -> 0
    [] target = "kPointSizeEdgeFlagKillVertex" -> 3
    [] target = "kDepth" -> 1
    [] OTHER -> 4

GetUsedWriteMask(result) ==
  {c \in result.original_write_mask :
     c < TargetUsedComponentCount(result.storage_target)}

\* InstructionResult::GetUsedResultComponents: the x/y/z/w sources the
\* written components read (bit k for the k-th of x, y, z, w).
ComponentIndex(c) == CASE c = "x" -> 0 [] c = "y" -> 1 [] c = "z" -> 2
                       [] c = "w" -> 3 [] OTHER -> 4

GetUsedResultComponents(result) ==
  {ComponentIndex(result.components[c + 1]) : c \in GetUsedWriteMask(result)}
    \ {4}

\* InstructionOperand::IsStandardSwizzle.
IsStandardSwizzle(operand) ==
  /\ operand.component_count = 4
  /\ operand.components = <<"x", "y", "z", "w">>

Operand(source, index, mode, negated, absolute, components) ==
  [storage_source |-> source, storage_index |-> index,
   storage_addressing_mode |-> mode, is_negated |-> negated,
   is_absolute_value |-> absolute, component_count |-> Len(components),
   components |-> components]

Result(target, index, mode, clamped, mask, components) ==
  [storage_target |-> target, storage_index |-> index,
   storage_addressing_mode |-> mode, is_clamped |-> clamped,
   original_write_mask |-> mask, components |-> components]

(***************************************************************************)
(* ALU instructions.                                                       *)
(***************************************************************************)
\* alu_vector_opcode_infos / alu_scalar_opcode_infos: operand count and
\* swizzle component count by opcode value.
kMax == 2
kMad == 11
kRetainPrev == 50

VectorArgumentCount(opcode) ==
  IF opcode \in {8, 9, 10, 19} THEN 1
  ELSE IF opcode \in {11, 12, 13, 14, 17} THEN 3
  ELSE 2

VectorSwizzleComponentCount(opcode) == 4

ScalarArgumentCount(opcode) ==
  IF opcode \in {33, 41, 50} THEN 0
  ELSE IF opcode \in 42..47 THEN 2
  ELSE 1

ScalarSwizzleComponentCount(opcode) ==
  IF opcode \in {33, 41, 50} THEN 0
  ELSE IF opcode \in {0, 2, 4, 5, 6, 23, 24, 25} THEN 2
  ELSE 1

AluVectorOpcodeIsKill(opcode) == opcode \in 24..27
AluScalarOpcodeIsKill(opcode) == opcode \in 35..39

\* The constant-addressing mode of a float-constant operand read through
\* const slot const_slot.
ConstAddressingMode(op, const_slot) ==
  IF \/ (const_slot = 0 /\ op.is_const_0_addressed)
     \/ (const_slot = 1 /\ op.is_const_1_addressed)
  THEN IF op.is_address_relative THEN "kAddressAbsolute"
       ELSE "kAddressRelative"
  ELSE "kStatic"

\* The swizzle of operand i (1..3) as a tuple of four 2-bit fields, lowest
\* bits first.
OperandComponents(swizzle, count) ==
  CASE count = 1 ->
         <<GetSwizzleFromComponentIndex((swizzle[4] + 3) % 4)>>
    [] count = 2 ->
         <<GetSwizzleFromComponentIndex((swizzle[4] + 3) % 4),
           GetSwizzleFromComponentIndex(swizzle[1] % 4)>>
    [] count = 4 ->
         [j \in 1..4 |->
            GetSwizzleFromComponentIndex((swizzle[j] + (j - 1)) % 4)]
    [] OTHER -> <<>>

ParseAluInstructionOperand(op, i, swizzle_component_count) ==
  LET const_slot ==
        CASE i = 2 -> IF op.src_is_temp[1] THEN 0 ELSE 1
          [] i = 3 -> IF op.src_is_temp[1] /\ op.src_is_temp[2] THEN 0 ELSE 1
          [] OTHER -> 0
      reg == op.src_reg[i]
      comps == OperandComponents(op.src_swizzle[i], swizzle_component_count)
  IN IF op.src_is_temp[i]
     THEN Operand("kRegister", reg % 32,
                  IF (reg \div 64) % 2 = 1 THEN "kAddressRelative"
                  ELSE "kStatic",
                  op.src_negate[i], (reg \div 128) % 2 = 1, comps)
     ELSE Operand("kConstantFloat", reg, ConstAddressingMode(op, const_slot),
                  op.src_negate[i], op.abs_constants, comps)

ParseAluInstructionOperandSpecial(op, storage_source, reg, negate, const_slot, component_index) ==
  IF storage_source = "kRegister"
  THEN Operand("kRegister", reg % 128, "kStatic", negate, op.abs_constants,
               <<GetSwizzleFromComponentIndex(component_index)>>)
  ELSE Operand(storage_source, reg, ConstAddressingMode(op, const_slot),
               negate, op.abs_constants,
               <<GetSwizzleFromComponentIndex(component_index)>>)

\* The storage target and export index of an exporting ALU instruction.
\* op.export_register is ExportRegister(op.vector_dest()) as [reg, n]: the
\* enumerator class and the offset from the class's first enumerator.
ExportTarget(op, shader_type) ==
  LET er == op.export_register IN
  CASE er.reg = "kExportAddress" -> <<"kExportAddress", 0>>
    [] er.reg = "kExportData" -> <<"kExportData", er.n>>
    [] shader_type = "kVertex" /\ er.reg = "kVSInterpolator" ->
         <<"kInterpolator", er.n>>
    [] shader_type = "kVertex" /\ er.reg = "kVSPosition" -> <<"kPosition", 0>>
    [] shader_type = "kVertex" /\ er.reg = "kVSPointSizeEdgeFlagKillVertex" ->
         <<"kPointSizeEdgeFlagKillVertex", 0>>
    [] shader_type = "kPixel" /\ er.reg = "kPSColor" -> <<"kColor", er.n>>
    [] shader_type = "kPixel" /\ er.reg = "kPSDepth" -> <<"kDepth", 0>>
    [] OTHER -> <<"kNone", 0>>

ParseAluInstruction(op, shader_type) ==
  LET target == IF op.is_export THEN ExportTarget(op, shader_type)
                ELSE <<"kRegister", 0>>
      vcomps == [i \in 1..4 |->
                   IF (i - 1) \in op.constant_0_mask THEN "0"
                   ELSE IF (i - 1) \in op.constant_1_mask THEN "1"
                   ELSE GetSwizzleFromComponentIndex(i - 1)]
      vargs == VectorArgumentCount(op.vector_opcode)
      sargs == ScalarArgumentCount(op.scalar_opcode)
      src3 == op.src_swizzle[3]
      component_a == (src3[4] + 3) % 4
      component_b == src3[1] % 4
      reg2 == src3[2] * 4 + src3[3] * 16
              + (IF op.src_is_temp[3] THEN 2 ELSE 0)
              + (op.scalar_opcode % 2)
      const_slot == IF op.src_is_temp[1] \/ op.src_is_temp[2] THEN 1 ELSE 0
  IN [vector_opcode |-> op.vector_opcode,
      scalar_opcode |-> op.scalar_opcode,
      vector_and_constant_result |->
        Result(target[1],
               IF op.is_export THEN target[2] ELSE op.vector_dest,
               IF ~op.is_export /\ op.is_vector_dest_relative
               THEN "kAddressRelative" ELSE "kStatic",
               op.vector_clamp,
               op.vector_write_mask \cup op.constant_0_mask
                 \cup op.constant_1_mask,
               vcomps),
      vector_operands |->
        [i \in 1..vargs |->
           ParseAluInstructionOperand(
             op, i, VectorSwizzleComponentCount(op.vector_opcode))],
      scalar_result |->
        Result(target[1],
               IF op.is_export THEN target[2] ELSE op.scalar_dest,
               IF ~op.is_export /\ op.is_scalar_dest_relative
               THEN "kAddressRelative" ELSE "kStatic",
               op.scalar_clamp, op.scalar_write_mask,
               <<"x", "y", "z", "w">>),
      scalar_operands |->
        IF sargs = 0 THEN <<>>
        ELSE IF sargs = 1
        THEN <<ParseAluInstructionOperand(
                 op, 3, ScalarSwizzleComponentCount(op.scalar_opcode))>>
        ELSE <<ParseAluInstructionOperandSpecial(
                 op, "kConstantFloat", op.src_reg[3], op.src_negate[3], 0,
                 component_a),
               ParseAluInstructionOperandSpecial(
                 op, "kRegister", reg2, op.src_negate[3], const_slot,
                 component_b)>>]

\* GetMemExportStreamConstant without the checks of the result and of the
\* constant's swizzle.
GetMemExportStreamConstantLoose(instr) ==
  IF /\ instr.vector_and_constant_result.storage_target = "kExportAddress"
     /\ instr.vector_opcode = kMad
     /\ instr.vector_operands[3].storage_source = "kConstantFloat"
     /\ instr.vector_operands[3].storage_addressing_mode = "kStatic"
     /\ ~instr.vector_operands[3].is_negated
     /\ ~instr.vector_operands[3].is_absolute_value
  THEN instr.vector_operands[3].storage_index
  ELSE UINT32_MAX

GetMemExportStreamConstant(instr) ==
  IF /\ instr.vector_and_constant_result.storage_target = "kExportAddress"
     /\ instr.vector_opcode = kMad
     /\ GetUsedResultComponents(instr.vector_and_constant_result) = 0..3
     /\ ~instr.vector_and_constant_result.is_clamped
     /\ instr.vector_operands[3].storage_source = "kConstantFloat"
     /\ instr.vector_operands[3].storage_addressing_mode = "kStatic"
     /\ IsStandardSwizzle(instr.vector_operands[3])
     /\ ~instr.vector_operands[3].is_negated
     /\ ~instr.vector_operands[3].is_absolute_value
  THEN instr.vector_operands[3].storage_index
  ELSE UINT32_MAX

\* IsScalarOpDefaultNop without the check of the register written.
IsScalarOpDefaultNopAnyTarget(instr) ==
  /\ instr.scalar_opcode = kRetainPrev
  /\ instr.scalar_result.original_write_mask = {}
  /\ ~instr.scalar_result.is_clamped

\* ParsedAluInstruction::IsScalarOpDefaultNop.
IsScalarOpDefaultNop(instr) ==
  IF \/ instr.scalar_opcode # kRetainPrev
     \/ instr.scalar_result.original_write_mask # {}
     \/ instr.scalar_result.is_clamped
  THEN FALSE
  ELSE IF instr.scalar_result.storage_target = "kRegister"
  THEN ~(\/ instr.scalar_result.storage_index # 0
         \/ instr.scalar_result.storage_addressing_mode # "kStatic")
  ELSE TRUE

\* IsVectorOpDefaultNop without the check of the register written.
IsVectorOpDefaultNopAnyRegister(instr) ==
  /\ instr.vector_opcode = kMax
  /\ instr.vector_and_constant_result.original_write_mask = {}
  /\ ~instr.vector_and_constant_result.is_clamped
  /\ \A i \in 1..2 :
       /\ instr.vector_operands[i].storage_source = "kRegister"
       /\ instr.vector_operands[i].storage_index = 0
       /\ instr.vector_operands[i].storage_addressing_mode = "kStatic"
       /\ ~instr.vector_operands[i].is_negated
       /\ ~instr.vector_operands[i].is_absolute_value
       /\ IsStandardSwizzle(instr.vector_operands[i])
  /\ \/ instr.vector_and_constant_result.storage_target = "kRegister"
     \/ ~IsScalarOpDefaultNop(instr)

\* ParsedAluInstruction::IsVectorOpDefaultNop.
IsVectorOpDefaultNop(instr) ==
  IF \/ instr.vector_opcode # kMax
     \/ instr.vector_and_constant_result.original_write_mask # {}
     \/ instr.vector_and_constant_result.is_clamped
     \/ \E i \in 1..2 :
          \/ instr.vector_operands[i].storage_source # "kRegister"
          \/ instr.vector_operands[i].storage_index # 0
          \/ instr.vector_operands[i].storage_addressing_mode # "kStatic"
          \/ instr.vector_operands[i].is_negated
          \/ instr.vector_operands[i].is_absolute_value
          \/ ~IsStandardSwizzle(instr.vector_operands[i])
  THEN FALSE
  ELSE IF instr.vector_and_constant_result.storage_target = "kRegister"
  THEN ~(\/ instr.vector_and_constant_result.storage_index # 0
         \/ instr.vector_and_constant_result.storage_addressing_mode
              # "kStatic")
  ELSE ~IsScalarOpDefaultNop(instr)

\* ucode::AluVectorOpHasSideEffects: the kill and setp_push opcodes.
AluVectorOpHasSideEffects(opcode) ==
  AluVectorOpcodeIsKill(opcode) \/ opcode \in 20..23

\* IsNop reading the write masks as decoded, whatever the storage target.
IsNopOriginalMask(instr) ==
  /\ instr.scalar_opcode = kRetainPrev
  /\ instr.scalar_result.original_write_mask = {}
  /\ instr.vector_and_constant_result.original_write_mask = {}
  /\ ~AluVectorOpHasSideEffects(instr.vector_opcode)

\* ParsedAluInstruction::IsNop.
IsNop(instr) ==
  /\ instr.scalar_opcode = kRetainPrev
  /\ GetUsedWriteMask(instr.scalar_result) = {}
  /\ GetUsedWriteMask(instr.vector_and_constant_result) = {}
  /\ ~AluVectorOpHasSideEffects(instr.vector_opcode)

(***************************************************************************)
(* Fetch instructions.                                                     *)
(***************************************************************************)
\* swizzle is the 12-bit dest_swizzle as four 3-bit fields, lowest first.
ParseFetchInstructionResult(dest, swizzle, is_relative) ==
  Result("kRegister", dest,
         IF is_relative THEN "kAddressRelative" ELSE "kStatic",
         FALSE,
         {i \in 0..3 : swizzle[i + 1] # 7},
         [i \in 1..4 |->
            CASE swizzle[i] \in {4, 6} -> "0"
              [] swizzle[i] = 5 -> "1"
              [] swizzle[i] = 7 -> "-"
              [] OTHER -> GetSwizzleFromComponentIndex(swizzle[i] % 4)])

\* The parsed instruction; ParseVertexFetchInstruction's return value is
\* ~op.is_mini_fetch.
ParseVertexFetchInstruction(op, previous_full_op) ==
  LET full_op == IF op.is_mini_fetch THEN previous_full_op ELSE op IN
  [opcode |-> "kVertexFetch",
   is_mini_fetch |-> op.is_mini_fetch,
   result |-> ParseFetchInstructionResult(op.dest, op.dest_swizzle,
                                          op.is_dest_relative),
   operands |->
     <<Operand("kRegister", full_op.src,
               IF full_op.is_src_relative THEN "kAddressRelative"
               ELSE "kStatic",
               FALSE, FALSE,
               <<GetSwizzleFromComponentIndex(full_op.src_swizzle % 4)>>),
       [storage_source |-> "kVertexFetchConstant",
        storage_index |-> full_op.fetch_constant_index]>>,
   attributes |-> [data_format |-> op.data_format, offset |-> op.offset,
                   stride |-> full_op.stride]]

\* opcode_info of ParseTextureFetchInstruction.
TextureHasDest(opcode) ==
  opcode \notin {"kSetTextureLod", "kSetTextureGradientsHorz",
                 "kSetTextureGradientsVert"}

TextureOverrideComponentCount(opcode) ==
  CASE opcode = "kGetTextureGradients" -> 2
    [] opcode = "kSetTextureLod" -> 1
    [] opcode \in {"kSetTextureGradientsHorz", "kSetTextureGradientsVert"} -> 3
    [] OTHER -> 0

GetFetchOpDimensionComponentCount(dimension) ==
  CASE dimension = "k1D" -> 1 [] dimension = "k2D" -> 2 [] OTHER -> 3

\* op.src_swizzle is a tuple of 2-bit fields, lowest first.
ParseTextureFetchInstruction(op) ==
  LET count == IF TextureOverrideComponentCount(op.opcode) # 0
               THEN TextureOverrideComponentCount(op.opcode)
               ELSE GetFetchOpDimensionComponentCount(op.dimension)
      src_op == Operand("kRegister", op.src,
                        IF op.is_src_relative THEN "kAddressRelative"
                        ELSE "kStatic",
                        FALSE, FALSE,
                        [j \in 1..count |->
                           GetSwizzleFromComponentIndex(op.src_swizzle[j] % 4)])
  IN [opcode |-> op.opcode,
      dimension |-> op.dimension,
      result |->
        IF TextureHasDest(op.opcode)
        THEN ParseFetchInstructionResult(op.dest, op.dest_swizzle,
                                         op.is_dest_relative)
        ELSE Result("kNone", 0, "kStatic", FALSE, {}, <<"x", "y", "z", "w">>),
      operands |->
        IF TextureHasDest(op.opcode)
        THEN <<src_op, [storage_source |-> "kTextureFetchConstant",
                        storage_index |-> op.fetch_constant_index]>>
        ELSE <<src_op>>]

(***************************************************************************)
(* The analyzer's accumulation, Shader::GatherXxx.  sh is the shader's    *)
(* analysis state, loc the locals of AnalyzeUcode that the helpers update  *)
(* through references; each operator returns the updated [sh, loc].        *)
(***************************************************************************)
Max(a, b) == IF a >= b THEN a ELSE b
Min(a, b) == IF a <= b THEN a ELSE b

GatherOperandInformation(sh, operand) ==
  CASE operand.storage_source = "kRegister" ->
         IF operand.storage_addressing_mode = "kStatic"
         THEN [sh EXCEPT !.register_static_address_bound =
                       Max(@, operand.storage_index + 1)]
         ELSE [sh EXCEPT !.uses_register_dynamic_addressing = TRUE]
    [] operand.storage_source = "kConstantFloat" ->
         IF operand.storage_addressing_mode = "kStatic"
         THEN [sh EXCEPT !.float_bitmap = @ \cup {operand.storage_index}]
         ELSE [sh EXCEPT !.float_dynamic_addressing = TRUE]
    [] OTHER -> sh

RECURSIVE GatherOperands(_, _)
GatherOperands(sh, operands) ==
  IF operands = <<>> THEN sh
  ELSE GatherOperands(GatherOperandInformation(sh, Head(operands)),
                      Tail(operands))

GatherFetchResultInformation(sh, result) ==
  IF GetUsedWriteMask(result) = {} THEN sh
  ELSE IF result.storage_addressing_mode = "kStatic"
  THEN [sh EXCEPT !.register_static_address_bound =
                Max(@, result.storage_index + 1)]
  ELSE [sh EXCEPT !.uses_register_dynamic_addressing = TRUE]

MemExportSlotValid(memexport_alloc_current_count) ==
  /\ memexport_alloc_current_count > 0
  /\ memexport_alloc_current_count <= kMaxMemExports

GatherAluResultInformation(sh, result, memexport_alloc_current_count) ==
  IF GetUsedWriteMask(result) = {} THEN sh
  ELSE CASE result.storage_target = "kRegister" ->
              IF result.storage_addressing_mode = "kStatic"
              THEN [sh EXCEPT !.register_static_address_bound =
                            Max(@, result.storage_index + 1)]
              ELSE [sh EXCEPT !.uses_register_dynamic_addressing = TRUE]
         [] result.storage_target = "kExportData" ->
              IF MemExportSlotValid(memexport_alloc_current_count)
              THEN [sh EXCEPT
                      !.memexport_eM_written[memexport_alloc_current_count - 1]
                         = @ \cup {result.storage_index}]
              ELSE sh
         [] result.storage_target = "kColor" ->
              [sh EXCEPT !.writes_color_targets = @ \cup {result.storage_index}]
         [] result.storage_target = "kDepth" ->
              [sh EXCEPT !.writes_depth = TRUE]
         [] OTHER -> sh

\* GatherMemExportAddress that records the stream constant whatever the
\* allocation count is.
GatherMemExportAddressAnySlot(g, instr) ==
  IF /\ instr.vector_and_constant_result.storage_target = "kExportAddress"
     /\ GetMemExportStreamConstant(instr) # UINT32_MAX
  THEN [sh |-> [g.sh EXCEPT !.memexport_stream_constants =
                       @ \cup {GetMemExportStreamConstant(instr)}],
        loc |-> [g.loc EXCEPT !.memexport_eA_written =
                       IF MemExportSlotValid(g.loc.memexport_alloc_count)
                       THEN @ \cup {g.loc.memexport_alloc_count - 1} ELSE @]]
  ELSE g

\* Lines 396-410: the eA bit and the stream constant of an export-address
\* write.
GatherMemExportAddress(g, instr) ==
  IF /\ instr.vector_and_constant_result.storage_target = "kExportAddress"
     /\ MemExportSlotValid(g.loc.memexport_alloc_count)
     /\ GetMemExportStreamConstant(instr) # UINT32_MAX
  THEN [sh |-> [g.sh EXCEPT !.memexport_stream_constants =
                       @ \cup {GetMemExportStreamConstant(instr)}],
        loc |-> [g.loc EXCEPT !.memexport_eA_written =
                       @ \cup {g.loc.memexport_alloc_count - 1}]]
  ELSE g

GatherAluInstructionInformation(g, op, shader_type) ==
  LET instr == ParseAluInstruction(op, shader_type)
      mac == g.loc.memexport_alloc_count
      sh1 == [g.sh EXCEPT !.kills_pixels =
                 \/ @
                 \/ AluVectorOpcodeIsKill(op.vector_opcode)
                 \/ AluScalarOpcodeIsKill(op.scalar_opcode)]
      sh2 == GatherAluResultInformation(sh1, instr.vector_and_constant_result,
                                        mac)
      sh3 == GatherAluResultInformation(sh2, instr.scalar_result, mac)
      sh4 == GatherOperands(sh3, instr.vector_operands)
      sh5 == GatherOperands(sh4, instr.scalar_operands)
  IN GatherMemExportAddress([sh |-> sh5, loc |-> g.loc], instr)

\* FindBinding that takes the first binding there is.
FindBindingFirst(bindings, fetch_constant, from) ==
  IF bindings = <<>> THEN 0 ELSE 1

\* FindBinding that never finds a binding.
FindBindingNone(bindings, fetch_constant, from) == 0

\* The index in vertex_bindings_ of the binding of a fetch constant, 0 if
\* there is none.
RECURSIVE FindBinding(_, _, _)
FindBinding(bindings, fetch_constant, from) ==
  IF from > Len(bindings) THEN 0
  ELSE IF bindings[from].fetch_constant = fetch_constant THEN from
  ELSE FindBinding(bindings, fetch_constant, from + 1)

GatherVertexFetchInformation(g, op) ==
  LET fetch_instr == ParseVertexFetchInstruction(op, g.loc.previous_vfetch_full)
      loc1 == IF ~op.is_mini_fetch
              THEN [g.loc EXCEPT !.previous_vfetch_full = op]
              ELSE g.loc
      sh1 == GatherFetchResultInformation(g.sh, fetch_instr.result)
      sh2 == GatherOperands(sh1, fetch_instr.operands)
      at == FindBinding(sh2.vertex_bindings, op.fetch_constant_index, 1)
  IN IF GetUsedResultComponents(fetch_instr.result) = {}
     THEN [sh |-> sh1, loc |-> loc1]
     ELSE IF at # 0
     THEN [sh |-> [sh2 EXCEPT !.vertex_bindings[at].attributes =
                         Append(@, fetch_instr)],
           loc |-> loc1]
     ELSE [sh |-> [sh2 EXCEPT !.vertex_bindings =
                         Append(@, [binding_index |-> Len(sh2.vertex_bindings),
                                    fetch_constant |-> op.fetch_constant_index,
                                    stride_words |->
                                      fetch_instr.attributes.stride,
                                    attributes |-> <<fetch_instr>>])],
           loc |-> loc1]

GatherTextureFetchInformation(g, op) ==
  LET fetch_instr == ParseTextureFetchInstruction(op)
      sh1 == GatherFetchResultInformation(g.sh, fetch_instr.result)
      sh2 == GatherOperands(sh1, fetch_instr.operands)
      fetch_constant == fetch_instr.operands[2].storage_index
      at == FindBinding(sh2.texture_bindings, fetch_constant, 1)
  IN IF ~TextureHasDest(op.opcode)
     THEN [sh |-> sh2, loc |-> g.loc]
     ELSE IF at # 0
     THEN [sh |-> [sh2 EXCEPT !.texture_bindings =
                         Append(@, [binding_index |->
                                      sh2.texture_bindings[at].binding_index,
                                    fetch_constant |-> fetch_constant,
                                    fetch_instr |-> fetch_instr])],
           loc |-> g.loc]
     ELSE [sh |-> [sh2 EXCEPT !.texture_bindings =
                         Append(@, [binding_index |->
                                      g.loc.unique_texture_bindings,
                                    fetch_constant |-> fetch_constant,
                                    fetch_instr |-> fetch_instr])],
           loc |-> [g.loc EXCEPT !.unique_texture_bindings = @ + 1]]

(***************************************************************************)
(* Control-flow decoders (ParseControlFlowXxx).                            *)
(***************************************************************************)
ParseControlFlowExec(cf, cf_index) ==
  [dword_index |-> cf_index, opcode |-> cf.opcode,
   instruction_address |-> cf.address, instruction_count |-> cf.count,
   type |-> CASE cf.opcode \in {"kExec", "kExecEnd"} -> "kUnconditional"
              [] cf.opcode \in {"kCondExecPred", "kCondExecPredEnd"} ->
                   "kPredicated"
              [] OTHER -> "kConditional",
   is_end |-> cf.opcode \in {"kExecEnd", "kCondExecEnd", "kCondExecPredEnd",
                             "kCondExecPredCleanEnd"},
   bool_constant_index |->
     IF cf.opcode \in {"kCondExec", "kCondExecEnd", "kCondExecPredClean",
                       "kCondExecPredCleanEnd"}
     THEN cf.bool_address ELSE 0,
   sequence |-> cf.sequence]

\* ParseControlFlowCondCall / ParseControlFlowCondJmp.
ParseControlFlowBranch(cf, cf_index) ==
  [dword_index |-> cf_index, target_address |-> cf.address,
   type |-> CASE cf.ctype = "uncond" -> "kUnconditional"
              [] cf.ctype = "pred" -> "kPredicated"
              [] OTHER -> "kConditional",
   bool_constant_index |-> IF cf.ctype = "cond" THEN cf.bool_address ELSE 0]

\* ParseControlFlowLoopStart / ParseControlFlowLoopEnd.
ParseControlFlowLoop(cf, cf_index) ==
  [dword_index |-> cf_index, loop_constant_index |-> cf.loop_id,
   address |-> cf.address]

ParseControlFlowAlloc(cf, cf_index, is_vertex_shader) ==
  [dword_index |-> cf_index, type |-> cf.alloc_type,
   is_vertex_shader |-> is_vertex_shader]

(***************************************************************************)
(* State.                                                                  *)
(***************************************************************************)
VARIABLES
  ucode,        \* Shader::ucode_data_, as triples
  shader_type,  \* Shader::type()
  backend,      \* the backend the translator is (its hook behaviour)
  sh,           \* the shader's analysis state
  an,           \* the activation of AnalyzeUcode: position and locals
  alog,         \* what the analysis walk visited, in order
  tr,           \* the ShaderTranslator: members, position and locals
  tl,           \* the Shader::Translation being filled
  hooks         \* the backend hooks called by the current translation

vars == <<ucode, shader_type, backend, sh, an, alog, tr, tl, hooks>>

\* cf_ab[j] of pair i.
CfAt(i, j) == IF j = 0 THEN ucode[i + 1].a ELSE ucode[i + 1].b

\* for (i ...) for (j < 2): the position after one inner iteration.
AdvanceCf(r) ==
  IF r.j = 0 THEN [r EXCEPT !.j = 1] ELSE [r EXCEPT !.i = @ + 1, !.j = 0]

\* The outer loop condition, tested before j = 0 only.
InCfLoop(r, bound) == r.j = 1 \/ r.i < bound
CfLoopDone(r, bound) == r.j = 0 /\ r.i >= bound

ZeroVertexFetch ==
  [is_mini_fetch |-> FALSE, dest |-> 0, dest_swizzle |-> <<0, 0, 0, 0>>,
   is_dest_relative |-> FALSE, src |-> 0, is_src_relative |-> FALSE,
   src_swizzle |-> 0, fetch_constant_index |-> 0, stride |-> 0,
   offset |-> 0, data_format |-> 0]

InitialShader ==
  [is_ucode_analyzed |-> FALSE,
   cf_pair_index_bound |-> 0,
   label_addresses |-> {},
   float_bitmap |-> {},
   float_dynamic_addressing |-> FALSE,
   float_count |-> 0,
   bool_bitmap |-> {},
   loop_bitmap |-> {},
   vertex_bindings |-> <<>>,
   texture_bindings |-> <<>>,
   memexport_eM_written |-> [i \in 0..(kMaxMemExports - 1) |-> {}],
   memexport_stream_constants |-> {},
   register_static_address_bound |-> 0,
   uses_register_dynamic_addressing |-> FALSE,
   kills_pixels |-> FALSE,
   writes_color_targets |-> {},
   writes_depth |-> FALSE]

\* Lines 93-97: the locals of the analysis walk.
InitialLocals ==
  [previous_vfetch_full |-> ZeroVertexFetch,
   unique_texture_bindings |-> 0,
   memexport_alloc_count |-> 0,
   memexport_eA_written |-> {}]

NoExec == [offset |-> 0, end |-> 0, sequence |-> 0, bool |-> UINT32_MAX]

InitialAnalysis ==
  [pc |-> "idle", i |-> 0, j |-> 0, calls |-> 0, loc |-> InitialLocals,
   instr |-> NoExec]

(***************************************************************************)
(* Shader::AnalyzeUcode.                                                   *)
(***************************************************************************)
\* ScanControlFlow assigning the exec address instead of taking the minimum.
ScanControlFlowAssign(s, cf) ==
  LET bounded == IF IsControlFlowOpcodeExec(cf.opcode)
                 THEN [s EXCEPT !.cf_pair_index_bound = cf.address]
                 ELSE s
  IN IF cf.opcode \in {"kCondCall", "kCondJmp", "kLoopStart", "kLoopEnd"}
     THEN [bounded EXCEPT !.label_addresses = @ \cup {cf.address}]
     ELSE bounded

\* ScanControlFlow that only clamps to non-zero exec addresses.
ScanControlFlowNonZero(s, cf) ==
  LET bounded == IF IsControlFlowOpcodeExec(cf.opcode) /\ cf.address # 0
                 THEN [s EXCEPT !.cf_pair_index_bound = Min(@, cf.address)]
                 ELSE s
  IN IF cf.opcode \in {"kCondCall", "kCondJmp", "kLoopStart", "kLoopEnd"}
     THEN [bounded EXCEPT !.label_addresses = @ \cup {cf.address}]
     ELSE bounded

\* ScanControlFlow taking labels from calls and jumps only.
ScanControlFlowCallsOnly(s, cf) ==
  LET bounded == IF IsControlFlowOpcodeExec(cf.opcode)
                 THEN [s EXCEPT !.cf_pair_index_bound = Min(@, cf.address)]
                 ELSE s
  IN IF cf.opcode \in {"kCondCall", "kCondJmp"}
     THEN [bounded EXCEPT !.label_addresses = @ \cup {cf.address}]
     ELSE bounded

\* Lines 67-87: one control-flow instruction of the bound and label scan.
ScanControlFlow(s, cf) ==
  LET bounded == IF IsControlFlowOpcodeExec(cf.opcode)
                 THEN [s EXCEPT !.cf_pair_index_bound = Min(@, cf.address)]
                 ELSE s
  IN IF cf.opcode \in {"kCondCall", "kCondJmp", "kLoopStart", "kLoopEnd"}
     THEN [bounded EXCEPT !.label_addresses = @ \cup {cf.address}]
     ELSE bounded

\* BoolConstantIndex taking the bool address of every call and jump.
BoolConstantIndexAnyBranch(cf) ==
  IF cf.opcode \in {"kCondExec", "kCondExecEnd", "kCondExecPredClean",
                    "kCondExecPredCleanEnd", "kCondCall", "kCondJmp"}
  THEN cf.bool_address ELSE UINT32_MAX

\* Lines 110-176: bool_constant_index of one control-flow instruction.
BoolConstantIndex(cf) ==
  CASE cf.opcode \in {"kCondExec", "kCondExecEnd", "kCondExecPredClean",
                      "kCondExecPredCleanEnd"} -> cf.bool_address
    [] cf.opcode \in {"kCondCall", "kCondJmp"} ->
         IF ParseControlFlowBranch(cf, 0).type = "kConditional"
         THEN ParseControlFlowBranch(cf, 0).bool_constant_index
         ELSE UINT32_MAX
    [] OTHER -> UINT32_MAX

\* Lines 192-195.
MarkBoolConstant(s, bool_constant_index) ==
  IF bool_constant_index # UINT32_MAX
  THEN [s EXCEPT !.bool_bitmap = @ \cup {bool_constant_index}]
  ELSE s

\* AnalyzeControlFlow counting the allocs of every type.
AnalyzeControlFlowAnyAlloc(g, cf, cf_index) ==
  CASE cf.opcode \in {"kLoopStart", "kLoopEnd"} ->
         [g EXCEPT !.sh.loop_bitmap =
            @ \cup {ParseControlFlowLoop(cf, cf_index).loop_constant_index}]
    [] cf.opcode = "kAlloc" ->
         [g EXCEPT !.loc.memexport_alloc_count = @ + 1]
    [] OTHER -> g

\* Lines 142-187: the dispatch of a control-flow instruction outside the
\* exec family.
AnalyzeControlFlow(g, cf, cf_index) ==
  CASE cf.opcode \in {"kLoopStart", "kLoopEnd"} ->
         [g EXCEPT !.sh.loop_bitmap =
            @ \cup {ParseControlFlowLoop(cf, cf_index).loop_constant_index}]
    [] cf.opcode = "kAlloc" ->
         IF ParseControlFlowAlloc(cf, cf_index, shader_type = "kVertex").type
              = "kMemory"
         THEN [g EXCEPT !.loc.memexport_alloc_count = @ + 1]
         ELSE g
    [] OTHER -> g

\* FinishFloatConstants that counts the bitmap whatever the addressing.
FinishFloatConstantsCounted(s) ==
  [s EXCEPT !.float_count = Cardinality(s.float_bitmap)]

\* Lines 201-213.
FinishFloatConstants(s) ==
  IF s.float_dynamic_addressing
  THEN [s EXCEPT !.float_count = 256, !.float_bitmap = 0..255]
  ELSE [s EXCEPT !.float_count = Cardinality(s.float_bitmap)]

\* CleanupMemExports with the cleanup loop left out.
CleanupMemExportsSkipped(g) == g

\* Lines 215-225: the cleanup of memexport allocations, on [sh, loc].
CleanupMemExports(g) ==
  LET eA == g.loc.memexport_eA_written
      eM == g.sh.memexport_eM_written
      eA_after == {i \in eA : eM[i] # {}}
  IN [sh |-> [g.sh EXCEPT
                !.memexport_eM_written =
                   [i \in DOMAIN eM |-> IF i \in eA THEN eM[i] ELSE {}],
                !.memexport_stream_constants =
                   IF eA_after = {} THEN {} ELSE @],
      loc |-> [g.loc EXCEPT !.memexport_eA_written = eA_after]]

\* AlreadyAnalyzed without the early return: every call analyzes again.
AlreadyAnalyzedNever == FALSE

\* Lines 49-51: the guard of AnalyzeUcode.
AlreadyAnalyzed == sh.is_ucode_analyzed

\* Calls of AnalyzeUcode one behaviour makes.
MaxAnalyzeCalls == 2

Event(ev, at) == [ev |-> ev, at |-> at]

\* ucode_data_[instr_offset * 3 ...]: the triple an exec block reads at an
\* instruction offset.  Past the end of the buffer the read is out of
\* bounds: it yields whatever follows the buffer (any of the values in
\* beyond), or the process faults.
ReadTriple(instr_offset, beyond) ==
  IF instr_offset < Len(ucode) THEN {ucode[instr_offset + 1]} ELSE beyond

ReadFaults(instr_offset) == instr_offset >= Len(ucode)

\* Lines 48-59: entry.  An analyzed shader returns at once.
AnalyzeUcode ==
  /\ an.pc = "idle"
  /\ tr.pc = "idle"
  /\ an.calls < MaxAnalyzeCalls
  /\ IF AlreadyAnalyzed
     THEN /\ an' = [an EXCEPT !.calls = @ + 1]
          /\ UNCHANGED <<sh, alog>>
     ELSE /\ an' = [an EXCEPT !.calls = @ + 1, !.pc = "scan", !.i = 0, !.j = 0]
          /\ sh' = [sh EXCEPT !.cf_pair_index_bound = Len(ucode)]
          /\ alog' = <<>>
  /\ UNCHANGED <<ucode, shader_type, backend, tr, tl, hooks>>

\* ScanContinues over the original range, whatever the bound has become.
ScanContinuesFullRange(r, s) == r.j = 1 \/ r.i < Len(ucode)

\* Line 60: the first loop goes on; its condition reads the bound as the
\* iterations so far have left it.
ScanContinues(r, s) == InCfLoop(r, s.cf_pair_index_bound)

\* Lines 60-89: one control-flow instruction of the first loop.
ScanStep ==
  /\ an.pc = "scan"
  /\ ScanContinues(an, sh)
  /\ sh' = ScanControlFlow(sh, CfAt(an.i, an.j))
  /\ an' = AdvanceCf(an)
  /\ UNCHANGED <<ucode, shader_type, backend, alog, tr, tl, hooks>>

\* Lines 92-97: the first loop has ended; the walk's locals are set up.
ScanDone ==
  /\ an.pc = "scan"
  /\ ~ScanContinues(an, sh)
  /\ an' = [an EXCEPT !.pc = "walk", !.i = 0, !.j = 0, !.loc = InitialLocals]
  /\ UNCHANGED <<ucode, shader_type, backend, sh, alog, tr, tl, hooks>>

\* Lines 242-245: the loop of GatherExecInformation over an exec block;
\* bool is the enclosing iteration's bool_constant_index.
GatherExecLoop(instr, bool) ==
  [offset |-> instr.instruction_address,
   end |-> instr.instruction_address + instr.instruction_count,
   sequence |-> instr.sequence,
   bool |-> bool]

\* Lines 98-197: one control-flow instruction of the second loop.  An
\* exec-family instruction opens GatherExecInformation's loop.
WalkStep ==
  /\ an.pc = "walk"
  /\ InCfLoop(an, sh.cf_pair_index_bound)
  /\ LET cf == CfAt(an.i, an.j)
         cf_index == an.i * 2 + an.j
         labelled == IF cf_index \in sh.label_addresses
                     THEN <<Event("label", cf_index)>> ELSE <<>>
     IN /\ alog' = alog \o labelled \o <<Event(cf.opcode, cf_index)>>
        /\ IF IsControlFlowOpcodeExec(cf.opcode)
           THEN LET instr == ParseControlFlowExec(cf, cf_index) IN
                /\ an' = [an EXCEPT
                            !.pc = "exec",
                            !.instr =
                               GatherExecLoop(instr, BoolConstantIndex(cf))]
                /\ sh' = sh
           ELSE LET g == AnalyzeControlFlow([sh |-> sh, loc |-> an.loc], cf,
                                            cf_index)
                IN /\ sh' = MarkBoolConstant(g.sh, BoolConstantIndex(cf))
                   /\ an' = [AdvanceCf(an) EXCEPT !.loc = g.loc]
  /\ UNCHANGED <<ucode, shader_type, backend, tr, tl, hooks>>

\* Lines 246-269: one ALU or fetch instruction of an exec block.
GatherInstruction(g, triple, sequence) ==
  IF sequence % 2 = 1
  THEN IF triple.fetch_opcode = "kVertexFetch"
       THEN GatherVertexFetchInformation(g, triple.vf)
       ELSE GatherTextureFetchInformation(g, triple.tf)
  ELSE GatherAluInstructionInformation(g, triple.alu, shader_type)

InstructionKind(triple, sequence) ==
  IF sequence % 2 = 1
  THEN IF triple.fetch_opcode = "kVertexFetch" THEN "vfetch" ELSE "tfetch"
  ELSE "alu"

\* The view of the triple that the iteration reinterprets it as (op).
InstructionOp(triple, sequence) ==
  IF sequence % 2 = 1
  THEN IF triple.fetch_opcode = "kVertexFetch" THEN triple.vf ELSE triple.tf
  ELSE triple.alu

\* What the iteration's ParseXxxInstruction call decodes op into.
ParseInstruction(triple, sequence, previous_vfetch_full) ==
  IF sequence % 2 = 1
  THEN IF triple.fetch_opcode = "kVertexFetch"
       THEN ParseVertexFetchInstruction(triple.vf, previous_vfetch_full)
       ELSE ParseTextureFetchInstruction(triple.tf)
  ELSE ParseAluInstruction(triple.alu, shader_type)

\* A visited instruction: its kind and address, the instruction read and
\* what it was decoded into.
Visit(ev, at, op, instr) == [ev |-> ev, at |-> at, op |-> op, instr |-> instr]

(***************************************************************************)
(* Input domains: the instructions microcode buffers are built from.       *)
(***************************************************************************)
Identity == <<0, 0, 0, 0>>

\* max r0._, r0, r0 + retain_prev: the assembler's default nop.
AluBase ==
  [vector_opcode |-> kMax, scalar_opcode |-> kRetainPrev,
   is_export |-> FALSE, vector_dest |-> 0, scalar_dest |-> 0,
   export_register |-> [reg |-> "kNone", n |-> 0],
   is_vector_dest_relative |-> FALSE, is_scalar_dest_relative |-> FALSE,
   vector_clamp |-> FALSE, scalar_clamp |-> FALSE,
   vector_write_mask |-> {}, scalar_write_mask |-> {},
   constant_0_mask |-> {}, constant_1_mask |-> {},
   src_reg |-> <<0, 0, 0>>, src_is_temp |-> <<TRUE, TRUE, TRUE>>,
   src_negate |-> <<FALSE, FALSE, FALSE>>,
   src_swizzle |-> <<Identity, Identity, Identity>>,
   is_const_0_addressed |-> FALSE, is_const_1_addressed |-> FALSE,
   is_address_relative |-> FALSE, abs_constants |-> FALSE]

\* mad eA, r1, r2, c<constant>
AluExportAddress(constant) ==
  [AluBase EXCEPT !.vector_opcode = kMad, !.is_export = TRUE,
                  !.export_register = [reg |-> "kExportAddress", n |-> 0],
                  !.vector_write_mask = 0..3,
                  !.src_reg = <<1, 2, constant>>,
                  !.src_is_temp = <<TRUE, TRUE, FALSE>>]

\* The same with the constant negated: no stream constant can be extracted.
AluExportAddressNegated(constant) ==
  [AluExportAddress(constant) EXCEPT
     !.src_negate = <<FALSE, FALSE, TRUE>>]

\* max eM<n>, r1, r1
AluExportData(n) ==
  [AluBase EXCEPT !.is_export = TRUE,
                  !.export_register = [reg |-> "kExportData", n |-> n],
                  !.vector_write_mask = 0..3,
                  !.src_reg = <<1, 1, 0>>]

\* max eM<n>._, r1, r1: an export-data target with nothing written.
AluExportDataMasked(n) == [AluExportData(n) EXCEPT !.vector_write_mask = {}]

\* add r<dest>, r1, c<constant>
AluRegister(dest, constant) ==
  [AluBase EXCEPT !.vector_opcode = 0, !.vector_dest = dest,
                  !.vector_write_mask = {0, 1},
                  !.src_reg = <<1, constant, 0>>,
                  !.src_is_temp = <<TRUE, FALSE, TRUE>>]

\* max oC<n>, r0, r0 (pixel) / max o<n>, r0, r0 (vertex)
AluColor(n) ==
  [AluBase EXCEPT !.is_export = TRUE,
                  !.export_register = [reg |-> "kPSColor", n |-> n],
                  !.vector_write_mask = 0..3]

VertexFetch(mini, dest, src, fetch_constant, stride) ==
  [ZeroVertexFetch EXCEPT !.is_mini_fetch = mini, !.dest = dest,
                          !.dest_swizzle = <<0, 1, 2, 3>>, !.src = src,
                          !.fetch_constant_index = fetch_constant,
                          !.stride = stride]

ZeroTextureFetch ==
  [opcode |-> "kTextureFetch", dimension |-> "k2D", dest |-> 0,
   dest_swizzle |-> <<0, 0, 0, 0>>, is_dest_relative |-> FALSE, src |-> 0,
   is_src_relative |-> FALSE, src_swizzle |-> <<0, 0, 0>>,
   fetch_constant_index |-> 0]

TextureFetch(opcode, dest, src, fetch_constant) ==
  [ZeroTextureFetch EXCEPT !.opcode = opcode, !.dest = dest,
                           !.dest_swizzle = <<0, 1, 2, 3>>, !.src = src,
                           !.src_swizzle = <<0, 1, 2>>,
                           !.fetch_constant_index = fetch_constant]

\* A triple: both control-flow instructions of its pair view, and its
\* instruction view (the fetch opcode in the low bits of the first dword,
\* and the ALU, vertex-fetch and texture-fetch readings).
Triple(a, b, fetch_opcode, alu, vf, tf) ==
  [a |-> a, b |-> b, fetch_opcode |-> fetch_opcode, alu |-> alu, vf |-> vf,
   tf |-> tf]

CfTriple(a, b) ==
  Triple(a, b, "kVertexFetch", AluBase, ZeroVertexFetch, ZeroTextureFetch)
AluTriple(alu) ==
  Triple(CfNop, CfNop, "kTextureFetch", alu, ZeroVertexFetch, ZeroTextureFetch)
VertexFetchTriple(vf) ==
  Triple(CfNop, CfNop, "kVertexFetch", AluBase, vf, ZeroTextureFetch)
TextureFetchTriple(tf) ==
  Triple(CfNop, CfNop, tf.opcode, AluBase, ZeroVertexFetch, tf)

\* What an out-of-bounds instruction read can yield.
GarbageTriples ==
  {AluTriple(AluExportData(1)), VertexFetchTriple(VertexFetch(TRUE, 2, 0, 1, 0))}

\* The buffers of the analysis specification.
AnalysisTriples ==
  {CfTriple(CfAlloc("kMemory"), CfExec("kExec", 1, 2, 0)),
   CfTriple(CfAlloc("kMemory"), CfAlloc("kMemory")),
   CfTriple(CfAlloc("kInterpolators"), CfExec("kExecEnd", 2, 1, 0)),
   CfTriple(CfExec("kExec", 0, 1, 0), CfExec("kExecEnd", 1, 0, 0)),
   CfTriple(CfBranch("kCondCall", 3, "cond", 1), CfLoop("kLoopStart", 1, 0)),
   CfTriple(CfBranch("kCondJmp", 6, "pred", 2),
            CfCondExec("kCondExec", 1, 2, 5, 3)),
   CfTriple(CfBranch("kCondCall", 1, "uncond", 4),
            CfExec("kCondExecPredEnd", 3, 1, 1)),
   AluTriple(AluExportAddress(12)),
   AluTriple(AluExportAddressNegated(7)),
   AluTriple(AluExportData(2)),
   AluTriple(AluRegister(3, 9)),
   VertexFetchTriple(VertexFetch(FALSE, 1, 0, 3, 8)),
   TextureFetchTriple(TextureFetch("kTextureFetch", 2, 1, 4))}

RECURSIVE SeqsUpTo(_, _)
\* The sequences over S of length at most n.
SeqsUpTo(S, n) ==
  IF n = 0 THEN {<<>>}
  ELSE LET shorter == SeqsUpTo(S, n - 1)
       IN shorter \cup {Append(q, x) : q \in {r \in shorter : Len(r) = n - 1},
                                       x \in S}

\* Lines 243-270: one iteration of GatherExecInformation's loop.
ExecStep ==
  /\ an.pc = "exec"
  /\ an.instr.offset < an.instr.end
  /\ \E triple \in ReadTriple(an.instr.offset, GarbageTriples) :
       LET g == GatherInstruction([sh |-> sh, loc |-> an.loc], triple,
                                  an.instr.sequence)
       IN /\ sh' = g.sh
          /\ an' = [an EXCEPT !.loc = g.loc,
                              !.instr.offset = @ + 1,
                              !.instr.sequence = @ \div 4]
          /\ alog' = Append(alog,
                            Visit(InstructionKind(triple, an.instr.sequence),
                                  an.instr.offset,
                                  InstructionOp(triple, an.instr.sequence),
                                  ParseInstruction(triple, an.instr.sequence,
                                                   an.loc.previous_vfetch_full)))
  /\ UNCHANGED <<ucode, shader_type, backend, tr, tl, hooks>>

\* The read of an instruction past the end of ucode_data_ faults.
ExecFault ==
  /\ an.pc = "exec"
  /\ an.instr.offset < an.instr.end
  /\ ReadFaults(an.instr.offset)
  /\ an' = [an EXCEPT !.pc = "fault"]
  /\ UNCHANGED <<ucode, shader_type, backend, sh, alog, tr, tl, hooks>>

\* The exec block is done: lines 192-197 of the enclosing iteration.
ExecDone ==
  /\ an.pc = "exec"
  /\ an.instr.offset >= an.instr.end
  /\ sh' = MarkBoolConstant(sh, an.instr.bool)
  /\ an' = [AdvanceCf(an) EXCEPT !.pc = "walk", !.instr = NoExec]
  /\ UNCHANGED <<ucode, shader_type, backend, alog, tr, tl, hooks>>

\* Lines 199-227: the walk has ended.
WalkDone ==
  /\ an.pc = "walk"
  /\ CfLoopDone(an, sh.cf_pair_index_bound)
  /\ LET g == CleanupMemExports([sh |-> FinishFloatConstants(sh),
                                 loc |-> an.loc])
     IN /\ sh' = [g.sh EXCEPT !.is_ucode_analyzed = TRUE]
        /\ an' = [an EXCEPT !.pc = "idle", !.loc = g.loc]
  /\ UNCHANGED <<ucode, shader_type, backend, alog, tr, tl, hooks>>

AnalysisNext ==
  \/ AnalyzeUcode
  \/ ScanStep
  \/ ScanDone
  \/ WalkStep
  \/ ExecStep
  \/ ExecFault
  \/ ExecDone
  \/ WalkDone

(***************************************************************************)
(* ShaderTranslator.                                                       *)
(***************************************************************************)
InitialTranslation ==
  [is_translated |-> FALSE, is_valid |-> FALSE, errors |-> <<>>,
   translated_binary |-> "none"]

InitialTranslator ==
  [pc |-> "idle", i |-> 0, j |-> 0, calls |-> 0, bound |-> 0,
   errors |-> <<>>, previous_vfetch_full |-> ZeroVertexFetch,
   register_count |-> 0, cf_index |-> 0, translation |-> "null",
   cf_instructions |-> <<>>, instr |-> NoExec, result |-> "none"]

\* The backend's fixed answers.
NoBackend ==
  [emits |-> "none", is_fatal |-> FALSE, post |-> "keep",
   modification_register_count |-> 0]

AnalysisInit ==
  /\ ucode \in SeqsUpTo(AnalysisTriples, MaxPairs)
  /\ shader_type \in {"kVertex", "kPixel"}
  /\ backend = NoBackend
  /\ sh = InitialShader
  /\ an = InitialAnalysis
  /\ alog = <<>>
  /\ tr = InitialTranslator
  /\ tl = InitialTranslation
  /\ hooks = <<>>

\* The analyzer alone, over the buffers of AnalysisTriples.
SpecAnalysis == AnalysisInit /\ [][AnalysisNext]_vars

(***************************************************************************)
(* The analyzer over buffers made of one control-flow pair and the         *)
(* instructions its exec blocks name: fetches of several fetch constants,  *)
(* full and mini vertex fetches, and ALU instructions with float constants *)
(* and memexport targets.                                                  *)
(***************************************************************************)
\* Instructions after the control-flow pair.
MaxInstructions == 2

\* mad eA, r1, r2, c<constant>.yxzw: the constant is swizzled.
AluExportAddressSwizzled(constant) ==
  [AluExportAddress(constant) EXCEPT
     !.src_swizzle = <<Identity, Identity, <<1, 3, 0, 0>>>>]

\* mad_sat eA, r1, r2, c<constant>
AluExportAddressClamped(constant) ==
  [AluExportAddress(constant) EXCEPT !.vector_clamp = TRUE]

\* mad eA.xy, r1, r2, c<constant>
AluExportAddressPartial(constant) ==
  [AluExportAddress(constant) EXCEPT !.vector_write_mask = {0, 1}]

\* add r<dest>, r1, c[<constant> + a0]
AluRelativeConstant(dest, constant) ==
  [AluRegister(dest, constant) EXCEPT !.is_const_0_addressed = TRUE]

\* add r1.x, src1, src2 with a scalar op on src3 (42 is mulsc, whose
\* constant operand is c20), where const slot 1 is addressed by a0 and
\* const slot 0 is not.
AluConstants(scalar_opcode, src_is_temp) ==
  [AluBase EXCEPT !.vector_opcode = 0, !.scalar_opcode = scalar_opcode,
                  !.vector_dest = 1, !.scalar_dest = 1,
                  !.vector_write_mask = {0}, !.scalar_write_mask = {1},
                  !.src_reg = <<5, 6, 20>>,
                  !.src_is_temp = src_is_temp,
                  !.is_const_1_addressed = TRUE]

\* A vertex fetch that writes no component.
VertexFetchNothing(dest, src, fetch_constant, stride) ==
  [VertexFetch(FALSE, dest, src, fetch_constant, stride) EXCEPT
     !.dest_swizzle = <<7, 7, 7, 7>>]

GatherPairs ==
  {CfTriple(CfExec("kExec", 1, 2, 5), CfExec("kExecEnd", 1, 1, 1)),
   CfTriple(CfAlloc("kMemory"), CfExec("kExecEnd", 1, 2, 0)),
   CfTriple(CfExec("kExec", 1, 2, 0), CfExec("kExecEnd", 1, 2, 5)),
   CfTriple(CfExec("kExec", 2, 2, 5), CfNop)}

GatherTriples ==
  {TextureFetchTriple(TextureFetch("kTextureFetch", 2, 1, 4)),
   TextureFetchTriple(TextureFetch("kTextureFetch", 3, 1, 4)),
   TextureFetchTriple(TextureFetch("kGetTextureWeights", 2, 1, 5)),
   TextureFetchTriple(TextureFetch("kSetTextureLod", 0, 1, 6)),
   VertexFetchTriple(VertexFetch(FALSE, 1, 0, 3, 8)),
   VertexFetchTriple([VertexFetch(TRUE, 2, 6, 3, 2) EXCEPT !.src_swizzle = 1]),
   VertexFetchTriple([VertexFetch(FALSE, 5, 7, 3, 4) EXCEPT
                        !.is_src_relative = TRUE, !.src_swizzle = 2]),
   VertexFetchTriple(VertexFetch(FALSE, 1, 1, 2, 0)),
   VertexFetchTriple(VertexFetch(TRUE, 3, 0, 2, 0)),
   VertexFetchTriple(VertexFetchNothing(4, 1, 7, 8)),
   AluTriple(AluExportAddress(12)),
   AluTriple(AluExportAddressSwizzled(12)),
   AluTriple(AluExportAddressClamped(12)),
   AluTriple(AluExportAddressPartial(12)),
   AluTriple(AluExportData(0)),
   AluTriple(AluRegister(3, 9)),
   AluTriple(AluRelativeConstant(3, 70)),
   AluTriple(AluConstants(0, <<FALSE, FALSE, FALSE>>)),
   AluTriple(AluConstants(42, <<FALSE, TRUE, FALSE>>))}

GatherInit ==
  /\ ucode \in {<<pair>> \o instructions :
                  pair \in GatherPairs,
                  instructions \in SeqsUpTo(GatherTriples, MaxInstructions)}
  /\ shader_type \in {"kVertex", "kPixel"}
  /\ backend = NoBackend
  /\ sh = InitialShader
  /\ an = InitialAnalysis
  /\ alog = <<>>
  /\ tr = InitialTranslator
  /\ tl = InitialTranslation
  /\ hooks = <<>>

SpecGather == GatherInit /\ [][AnalysisNext]_vars

(***************************************************************************)
(* ShaderTranslator::TranslateAnalyzedShader.  A backend is the subclass   *)
(* whose virtual hooks the driver calls; its behaviour is an input:        *)
(* emits names the hook that calls EmitTranslationError (with is_fatal)    *)
(* whenever it runs, post what PostTranslation does to is_valid_.          *)
(***************************************************************************)
\* Calls of TranslateAnalyzedShader one behaviour makes.
MaxTranslateCalls == 2

Hook(hook, at) == [hook |-> hook, at |-> at]

\* Lines 571-579.
EmitTranslationError(errors, message, is_fatal) ==
  Append(errors, [message |-> message, is_fatal |-> is_fatal])

\* The translator's errors_ after the backend hook ran.
RunHook(errors, hook) ==
  IF backend.emits = hook
  THEN EmitTranslationError(errors, hook, backend.is_fatal)
  ELSE errors

RECURSIVE RunHooks(_, _)
RunHooks(errors, calls) ==
  IF calls = <<>> THEN errors
  ELSE RunHooks(RunHook(errors, Head(calls).hook), Tail(calls))

\* Reset that clears the error list only.
ResetErrorsOnly(t) == [t EXCEPT !.errors = <<>>]

\* Reset that leaves the members as the last translation left them.
ResetNothing(t) == t

\* Lines 495-498.
Reset(t) ==
  [t EXCEPT !.errors = <<>>, !.previous_vfetch_full = ZeroVertexFetch]

\* RegisterCount widened to the backend's minimum whatever the addressing.
RegisterCountWidened(s) ==
  Max(s.register_static_address_bound, backend.modification_register_count)

\* RegisterCount never widened.
RegisterCountStatic(s) == s.register_static_address_bound

\* Lines 512-518.
RegisterCount(s) ==
  IF s.uses_register_dynamic_addressing
  THEN Max(s.register_static_address_bound,
           backend.modification_register_count)
  ELSE s.register_static_address_bound

\* FlattenControlFlow keeping only the first instruction of each pair.
FlattenFirstOfPairs(cf_pair_index_bound) ==
  [k \in 1..cf_pair_index_bound |-> CfAt(k - 1, 0)]

\* Lines 526-532: the flattened control-flow instruction list.
FlattenControlFlow(cf_pair_index_bound) ==
  [k \in 1..(2 * cf_pair_index_bound) |-> CfAt((k - 1) \div 2, (k - 1) % 2)]

\* ControlFlowHook giving kMarkVsFetchDone to the nop hook.
ControlFlowHookNopByDefault(opcode) ==
  CASE opcode = "kLoopStart" -> "ProcessLoopStartInstruction"
    [] opcode = "kLoopEnd" -> "ProcessLoopEndInstruction"
    [] opcode = "kCondCall" -> "ProcessCallInstruction"
    [] opcode = "kReturn" -> "ProcessReturnInstruction"
    [] opcode = "kCondJmp" -> "ProcessJumpInstruction"
    [] opcode = "kAlloc" -> "ProcessAllocInstruction"
    [] OTHER -> "ProcessControlFlowNopInstruction"

\* Lines 583-642: the hook TranslateControlFlowInstruction calls for an
\* instruction outside the exec family ("none" for kMarkVsFetchDone).
ControlFlowHook(opcode) ==
  CASE opcode = "kNop" -> "ProcessControlFlowNopInstruction"
    [] opcode = "kLoopStart" -> "ProcessLoopStartInstruction"
    [] opcode = "kLoopEnd" -> "ProcessLoopEndInstruction"
    [] opcode = "kCondCall" -> "ProcessCallInstruction"
    [] opcode = "kReturn" -> "ProcessReturnInstruction"
    [] opcode = "kCondJmp" -> "ProcessJumpInstruction"
    [] opcode = "kAlloc" -> "ProcessAllocInstruction"
    [] OTHER -> "none"

\* LabelCalls without the lookup in the label set.
LabelCallsAlways(label_addresses, cf_index) ==
  <<Hook("ProcessLabel", cf_index)>>

\* Lines 543-545.
LabelCalls(label_addresses, cf_index) ==
  IF cf_index \in label_addresses
  THEN <<Hook("ProcessLabel", cf_index)>> ELSE <<>>

\* IsValid without the scan of the error list.
IsValidAlways(errors) == TRUE

\* Lines 556-563.
IsValid(errors) == \A k \in 1..Len(errors) : ~errors[k].is_fatal

\* Lines 552-553: the errors the translation receives, and what is left in
\* the translator's moved-from list.
MoveErrors(t) == [to |-> t.errors, left |-> <<>>]

\* CanTranslate without the precondition.
CanTranslateAlways == TRUE

\* Lines 503-507: the precondition of TranslateAnalyzedShader.
CanTranslate == sh.is_ucode_analyzed

\* Lines 500-520: entry, up to and including StartTranslation().
TranslateAnalyzedShader ==
  /\ tr.pc = "idle"
  /\ an.pc = "idle"
  /\ tr.calls < MaxTranslateCalls
  /\ IF ~CanTranslate
     THEN /\ tr' = [tr EXCEPT !.calls = @ + 1, !.result = "false"]
          /\ UNCHANGED <<tl, hooks>>
     ELSE LET t == Reset([tr EXCEPT !.translation = "tl"]) IN
          /\ tr' = [t EXCEPT
                      !.calls = @ + 1,
                      !.result = "none",
                      !.register_count = RegisterCount(sh),
                      !.errors = RunHook(t.errors, "StartTranslation"),
                      !.pc = "preprocess"]
          /\ hooks' = <<Hook("StartTranslation", 0)>>
          /\ tl' = tl
  /\ UNCHANGED <<ucode, shader_type, backend, sh, an, alog>>

\* Lines 525-533.
PreProcess ==
  /\ tr.pc = "preprocess"
  /\ LET list == FlattenControlFlow(sh.cf_pair_index_bound) IN
     /\ tr' = [tr EXCEPT
                 !.bound = sh.cf_pair_index_bound,
                 !.cf_instructions = list,
                 !.errors = RunHook(@, "PreProcessControlFlowInstructions"),
                 !.pc = "main", !.i = 0, !.j = 0]
     /\ hooks' = Append(hooks, Hook("PreProcessControlFlowInstructions",
                                    Len(list)))
  /\ UNCHANGED <<ucode, shader_type, backend, sh, an, alog, tl>>

\* TranslateExecLoop starting one instruction late.
TranslateExecLoopSkipFirst(instr) ==
  [offset |-> instr.instruction_address + 1,
   end |-> instr.instruction_address + instr.instruction_count,
   sequence |-> instr.sequence \div 4,
   bool |-> UINT32_MAX]

\* Lines 778-781: the loop of TranslateExecInstructions over an exec block.
TranslateExecLoop(instr) ==
  [offset |-> instr.instruction_address,
   end |-> instr.instruction_address + instr.instruction_count,
   sequence |-> instr.sequence,
   bool |-> UINT32_MAX]

\* Lines 537-550: one control-flow instruction of the main walk.  An
\* exec-family instruction opens TranslateExecInstructions' loop.
TranslateStep ==
  /\ tr.pc = "main"
  /\ InCfLoop(tr, tr.bound)
  /\ LET cf == CfAt(tr.i, tr.j)
         cf_index == tr.i * 2 + tr.j
         begin == LabelCalls(sh.label_addresses, cf_index)
                    \o <<Hook("ProcessControlFlowInstructionBegin", cf_index)>>
     IN IF IsControlFlowOpcodeExec(cf.opcode)
        THEN LET instr == ParseControlFlowExec(cf, cf_index)
                 calls == Append(begin, Hook("ProcessExecInstructionBegin",
                                             cf_index))
             IN /\ tr' = [tr EXCEPT
                            !.cf_index = cf_index,
                            !.errors = RunHooks(@, calls),
                            !.pc = "exec",
                            !.instr = TranslateExecLoop(instr)]
                /\ hooks' = hooks \o calls
        ELSE LET calls ==
                   begin
                     \o (IF ControlFlowHook(cf.opcode) = "none" THEN <<>>
                         ELSE <<Hook(ControlFlowHook(cf.opcode), cf_index)>>)
                     \o <<Hook("ProcessControlFlowInstructionEnd", cf_index)>>
             IN /\ tr' = [AdvanceCf(tr) EXCEPT
                            !.cf_index = cf_index,
                            !.errors = RunHooks(@, calls)]
                /\ hooks' = hooks \o calls
  /\ UNCHANGED <<ucode, shader_type, backend, sh, an, alog, tl>>

\* InstructionHook taking either bit of the instruction's sequence field as
\* the fetch bit.
InstructionHookAnyBit(triple, sequence) ==
  IF sequence % 4 # 0
  THEN IF triple.fetch_opcode = "kVertexFetch"
       THEN "ProcessVertexFetchInstruction"
       ELSE "ProcessTextureFetchInstruction"
  ELSE "ProcessAluInstruction"

\* Lines 782-807: the hook of one instruction of an exec block.
InstructionHook(triple, sequence) ==
  IF sequence % 2 = 1
  THEN IF triple.fetch_opcode = "kVertexFetch"
       THEN "ProcessVertexFetchInstruction"
       ELSE "ProcessTextureFetchInstruction"
  ELSE "ProcessAluInstruction"

\* UpdatePreviousVertexFetch that also caches mini fetches.
UpdatePreviousVertexFetchAlways(previous, triple, sequence) ==
  IF sequence % 2 = 1 /\ triple.fetch_opcode = "kVertexFetch"
  THEN triple.vf
  ELSE previous

\* Lines 789-792: the translator's previous full vertex fetch after the
\* instruction.
UpdatePreviousVertexFetch(previous, triple, sequence) ==
  IF /\ sequence % 2 = 1
     /\ triple.fetch_opcode = "kVertexFetch"
     /\ ~triple.vf.is_mini_fetch
  THEN triple.vf
  ELSE previous

\* A Process*Instruction hook call: the hook, the instruction's address,
\* the instruction read and the decoded instruction the hook is given.
InstructionCall(hook, at, op, instr) ==
  [hook |-> hook, at |-> at, op |-> op, instr |-> instr]

\* Lines 779-808: one iteration of TranslateExecInstructions' loop.
TranslateExecStep ==
  /\ tr.pc = "exec"
  /\ tr.instr.offset < tr.instr.end
  /\ \E triple \in ReadTriple(tr.instr.offset, GarbageTriples) :
       LET call == InstructionCall(
                     InstructionHook(triple, tr.instr.sequence),
                     tr.instr.offset,
                     InstructionOp(triple, tr.instr.sequence),
                     ParseInstruction(triple, tr.instr.sequence,
                                      tr.previous_vfetch_full))
       IN /\ tr' = [tr EXCEPT
                      !.previous_vfetch_full =
                         UpdatePreviousVertexFetch(@, triple,
                                                   tr.instr.sequence),
                      !.errors = RunHook(@, call.hook),
                      !.instr.offset = @ + 1,
                      !.instr.sequence = @ \div 4]
          /\ hooks' = Append(hooks, call)
  /\ UNCHANGED <<ucode, shader_type, backend, sh, an, alog, tl>>

\* The read of an instruction past the end of ucode_data_ faults.
TranslateExecFault ==
  /\ tr.pc = "exec"
  /\ tr.instr.offset < tr.instr.end
  /\ ReadFaults(tr.instr.offset)
  /\ tr' = [tr EXCEPT !.pc = "fault"]
  /\ UNCHANGED <<ucode, shader_type, backend, sh, an, alog, tl, hooks>>

\* Line 809 and line 548: the exec block and its control-flow instruction
\* end.
TranslateExecDone ==
  /\ tr.pc = "exec"
  /\ tr.instr.offset >= tr.instr.end
  /\ LET calls == <<Hook("ProcessExecInstructionEnd", tr.cf_index),
                    Hook("ProcessControlFlowInstructionEnd", tr.cf_index)>>
     IN /\ tr' = [AdvanceCf(tr) EXCEPT !.pc = "main", !.instr = NoExec,
                                       !.errors = RunHooks(@, calls)]
        /\ hooks' = hooks \o calls
  /\ UNCHANGED <<ucode, shader_type, backend, sh, an, alog, tl>>

\* Lines 552-563: the main walk has ended; the errors are handed over,
\* CompleteTranslation() runs and validity is computed.
Complete ==
  /\ tr.pc = "main"
  /\ CfLoopDone(tr, tr.bound)
  /\ LET moved == MoveErrors(tr) IN
     /\ tr' = [tr EXCEPT !.errors = RunHook(moved.left, "CompleteTranslation"),
                         !.pc = "post"]
     /\ tl' = [tl EXCEPT !.errors = moved.to,
                         !.translated_binary = "binary",
                         !.is_translated = TRUE,
                         !.is_valid = IsValid(moved.to)]
  /\ hooks' = Append(hooks, Hook("CompleteTranslation", 0))
  /\ UNCHANGED <<ucode, shader_type, backend, sh, an, alog>>

\* Lines 565-568: PostTranslation() and the return.
PostTranslation ==
  /\ tr.pc = "post"
  /\ tl' = [tl EXCEPT !.is_valid =
              CASE backend.post = "validate" -> TRUE
                [] backend.post = "invalidate" -> FALSE
                [] OTHER -> @]
  /\ tr' = [tr EXCEPT !.errors = RunHook(@, "PostTranslation"),
                      !.pc = "idle",
                      !.result = IF tl'.is_valid THEN "true" ELSE "false"]
  /\ hooks' = Append(hooks, Hook("PostTranslation", 0))
  /\ UNCHANGED <<ucode, shader_type, backend, sh, an, alog>>

Next ==
  \/ AnalyzeUcode
  \/ ScanStep
  \/ ScanDone
  \/ WalkStep
  \/ ExecStep
  \/ ExecFault
  \/ ExecDone
  \/ WalkDone
  \/ TranslateAnalyzedShader
  \/ PreProcess
  \/ TranslateStep
  \/ TranslateExecStep
  \/ TranslateExecFault
  \/ TranslateExecDone
  \/ Complete
  \/ PostTranslation

(***************************************************************************)
(* The whole front end: analysis, then translations by one translator.     *)
(***************************************************************************)
\* Largest microcode buffer of the translation specification, in triples.
MaxTranslatePairs == 2

AllHooks ==
  {"StartTranslation", "PreProcessControlFlowInstructions", "ProcessLabel",
   "ProcessControlFlowInstructionBegin", "ProcessControlFlowInstructionEnd",
   "ProcessControlFlowNopInstruction", "ProcessExecInstructionBegin",
   "ProcessExecInstructionEnd", "ProcessVertexFetchInstruction",
   "ProcessTextureFetchInstruction", "ProcessAluInstruction",
   "ProcessLoopStartInstruction", "ProcessLoopEndInstruction",
   "ProcessCallInstruction", "ProcessReturnInstruction",
   "ProcessJumpInstruction", "ProcessAllocInstruction",
   "CompleteTranslation", "PostTranslation"}

\* Backends: silent ones (with each PostTranslation behaviour), one that
\* reports a fatal error from one hook, for each hook, and ones that report
\* an advisory error.
Backends ==
  {[NoBackend EXCEPT !.post = p, !.modification_register_count = 6] :
     p \in {"keep", "validate", "invalidate"}}
  \cup {[NoBackend EXCEPT !.emits = h, !.is_fatal = TRUE] : h \in AllHooks}
  \cup {[NoBackend EXCEPT !.emits = h] :
          h \in {"StartTranslation", "ProcessControlFlowInstructionBegin",
                 "ProcessAluInstruction", "CompleteTranslation"}}

TranslationTriples ==
  {CfTriple(CfExec("kExec", 1, 1, 0), CfExec("kExecEnd", 1, 1, 1)),
   CfTriple(CfBranch("kCondJmp", 1, "cond", 2), CfExec("kExecEnd", 1, 2, 1)),
   CfTriple(CfLoop("kLoopStart", 0, 1), CfAlloc("kMemory")),
   CfTriple(CfBranch("kCondCall", 2, "uncond", 0), CfLoop("kLoopEnd", 3, 1)),
   CfTriple(CfReturn, CfMarkVsFetchDone),
   AluTriple(AluRegister(3, 9)),
   VertexFetchTriple(VertexFetch(FALSE, 1, 0, 3, 8)),
   TextureFetchTriple(TextureFetch("kTextureFetch", 2, 1, 4))}

\* A translator is either new, or has translated other shaders before: its
\* errors_ and previous_vfetch_full_ hold what the last translation left.
UsedTranslator ==
  [InitialTranslator EXCEPT
     !.errors = <<[message |-> "PostTranslation", is_fatal |-> TRUE]>>,
     !.previous_vfetch_full = VertexFetch(FALSE, 5, 4, 2, 3)]

Init ==
  /\ ucode \in SeqsUpTo(TranslationTriples, MaxTranslatePairs)
  /\ shader_type = "kVertex"
  /\ backend \in Backends
  /\ sh = InitialShader
  /\ an = InitialAnalysis
  /\ alog = <<>>
  /\ tr \in {InitialTranslator, UsedTranslator}
  /\ tl = InitialTranslation
  /\ hooks = <<>>

Spec == Init /\ [][Next]_vars

\* The same, with the driver's sequential execution: a started translation
\* keeps taking the steps of TranslateAnalyzedShader while one is possible
\* (the backend hooks return).  A faulting read is not such a step.
SpecFair ==
  /\ Init
  /\ [][Next]_vars
  /\ WF_vars(PreProcess \/ TranslateStep \/ TranslateExecStep
                \/ TranslateExecDone \/ Complete \/ PostTranslation)

(***************************************************************************)
(* Both passes over buffers of one control-flow pair and fetch and ALU     *)
(* instructions: analysis, then translations by a new or a used translator *)
(* with a silent backend.                                                  *)
(***************************************************************************)
PassPairs ==
  {CfTriple(CfExec("kExec", 1, 2, 5), CfExec("kExecEnd", 1, 1, 1)),
   CfTriple(CfExec("kExec", 1, 2, 4), CfNop),
   CfTriple(CfExec("kExecEnd", 2, 2, 5), CfReturn),
   CfTriple(CfExec("kExec", 1, 2, 14), CfExec("kExecEnd", 2, 1, 3))}

PassTriples ==
  {VertexFetchTriple([VertexFetch(FALSE, 1, 0, 3, 8) EXCEPT
                        !.is_src_relative = TRUE, !.src_swizzle = 2]),
   VertexFetchTriple([VertexFetch(TRUE, 2, 6, 3, 2) EXCEPT !.src_swizzle = 1]),
   VertexFetchTriple(VertexFetch(FALSE, 7, 4, 2, 4)),
   TextureFetchTriple(TextureFetch("kTextureFetch", 2, 1, 4)),
   AluTriple(AluRegister(3, 9))}

\* Silent backends with different GetModificationRegisterCount() values.
PassBackends ==
  {[NoBackend EXCEPT !.modification_register_count = n] : n \in {0, 6}}

PassesInit ==
  /\ ucode \in {<<pair>> \o instructions :
                  pair \in PassPairs,
                  instructions \in SeqsUpTo(PassTriples, MaxInstructions)}
  /\ shader_type = "kVertex"
  /\ backend \in PassBackends
  /\ sh = InitialShader
  /\ an = InitialAnalysis
  /\ alog = <<>>
  /\ tr \in {InitialTranslator, UsedTranslator}
  /\ tl = InitialTranslation
  /\ hooks = <<>>

SpecPasses == PassesInit /\ [][Next]_vars

(***************************************************************************)
(* The default-nop predicates of a parsed ALU instruction.  Nothing in     *)
(* this file calls them: their callers are the backends, which receive     *)
(* the parsed instruction in ProcessAluInstruction().  The buffer is one   *)
(* ALU instruction and each predicate is asked of its parse once.          *)
(***************************************************************************)
\* One vector operand in each of the ways it can differ from r0: another
\* register, relative addressing, absolute value, negation, a swizzle, a
\* float constant.
NopOperand(reg, is_temp, negate, swizzle) ==
  [reg |-> reg, is_temp |-> is_temp, negate |-> negate, swizzle |-> swizzle]

NopOperands ==
  {NopOperand(0, TRUE, FALSE, Identity),
   NopOperand(1, TRUE, FALSE, Identity),
   NopOperand(64, TRUE, FALSE, Identity),
   NopOperand(128, TRUE, FALSE, Identity),
   NopOperand(0, TRUE, TRUE, Identity),
   NopOperand(0, TRUE, FALSE, <<1, 3, 0, 0>>),
   NopOperand(0, FALSE, FALSE, Identity)}

\* The destinations: a register ("kNone": not an export), and export
\* registers a vertex shader writes.
NopExports == {"kNone", "kExportData", "kVSPosition", "kVSInterpolator"}

NopAluOps ==
  {[AluBase EXCEPT
      !.vector_opcode = opcodes[1], !.scalar_opcode = opcodes[2],
      !.is_export = (export # "kNone"),
      !.export_register = [reg |-> export, n |-> 0],
      !.vector_dest = dests[1], !.scalar_dest = dests[2],
      !.is_vector_dest_relative = relative[1],
      !.is_scalar_dest_relative = relative[2],
      !.vector_clamp = clamp[1], !.scalar_clamp = clamp[2],
      !.vector_write_mask = masks[1], !.scalar_write_mask = masks[2],
      !.src_reg = <<operands[1].reg, operands[2].reg, 0>>,
      !.src_is_temp = <<operands[1].is_temp, operands[2].is_temp, TRUE>>,
      !.src_negate = <<operands[1].negate, operands[2].negate, FALSE>>,
      !.src_swizzle = <<operands[1].swizzle, operands[2].swizzle, Identity>>] :
     opcodes \in {kMax, 0} \X {kRetainPrev, 0},
     export \in NopExports,
     dests \in {0, 3} \X {0, 3},
     relative \in BOOLEAN \X BOOLEAN,
     clamp \in BOOLEAN \X BOOLEAN,
     masks \in {{}, {0}} \X {{}, {0}},
     operands \in {pair \in NopOperands \X NopOperands :
                     \/ pair[1] = NopOperand(0, TRUE, FALSE, Identity)
                     \/ pair[2] = NopOperand(0, TRUE, FALSE, Identity)}}

NopInit ==
  /\ ucode \in {<<AluTriple(alu)>> : alu \in NopAluOps}
  /\ shader_type = "kVertex"
  /\ backend = NoBackend
  /\ sh = InitialShader
  /\ an = InitialAnalysis
  /\ alog = <<>>
  /\ tr = InitialTranslator
  /\ tl = InitialTranslation
  /\ hooks = <<>>

\* A predicate asked of a parsed instruction, and its answer.
NopQuery(predicate, instr, result) ==
  [hook |-> predicate, instr |-> instr, result |-> result]

Asked(predicate) == \E k \in 1..Len(hooks) : hooks[k].hook = predicate

IsVectorOpDefaultNopCall ==
  /\ ~Asked("IsVectorOpDefaultNop")
  /\ LET instr == ParseAluInstruction(ucode[1].alu, shader_type) IN
     hooks' = Append(hooks, NopQuery("IsVectorOpDefaultNop", instr,
                                     IsVectorOpDefaultNop(instr)))
  /\ UNCHANGED <<ucode, shader_type, backend, sh, an, alog, tr, tl>>

IsScalarOpDefaultNopCall ==
  /\ ~Asked("IsScalarOpDefaultNop")
  /\ LET instr == ParseAluInstruction(ucode[1].alu, shader_type) IN
     hooks' = Append(hooks, NopQuery("IsScalarOpDefaultNop", instr,
                                     IsScalarOpDefaultNop(instr)))
  /\ UNCHANGED <<ucode, shader_type, backend, sh, an, alog, tr, tl>>

NopNext ==
  \/ IsVectorOpDefaultNopCall
  \/ IsScalarOpDefaultNopCall

SpecNop == NopInit /\ [][NopNext]_vars

(***************************************************************************)
(* IsNop() of a parsed ALU instruction: the buffer is one ALU instruction  *)
(* of a vertex or a pixel shader, a max of r0 and r0 with retain_prev or a *)
(* neighbour of it, written to a register or exported, with at most one    *)
(* component in each write mask.                                           *)
(***************************************************************************)
\* The export registers a shader of the type can name ("kNone": the
\* instruction is not an export; "kUnsupported": an export register that
\* neither shader type decodes, whose storage target stays kNone).
IsNopExports(type) ==
  {"kNone", "kExportAddress", "kExportData", "kUnsupported"}
    \cup (IF type = "kVertex"
          THEN {"kVSInterpolator", "kVSPosition",
                "kVSPointSizeEdgeFlagKillVertex"}
          ELSE {"kPSColor", "kPSDepth"})

IsNopAluOps(type) ==
  {[AluBase EXCEPT
      !.vector_opcode = opcodes[1], !.scalar_opcode = opcodes[2],
      !.is_export = (export # "kNone"),
      !.export_register = [reg |-> export, n |-> 0],
      !.vector_dest = dest, !.scalar_dest = dest,
      !.vector_write_mask = masks[1], !.scalar_write_mask = masks[2]] :
     opcodes \in {kMax, 0, 20, 24} \X {kRetainPrev, 0},
     export \in IsNopExports(type),
     dest \in {0, 3},
     masks \in ({{}} \cup {{c} : c \in 0..3})
                 \X ({{}} \cup {{c} : c \in 0..3})}

IsNopInit ==
  /\ shader_type \in {"kVertex", "kPixel"}
  /\ ucode \in {<<AluTriple(alu)>> : alu \in IsNopAluOps(shader_type)}
  /\ backend = NoBackend
  /\ sh = InitialShader
  /\ an = InitialAnalysis
  /\ alog = <<>>
  /\ tr = InitialTranslator
  /\ tl = InitialTranslation
  /\ hooks = <<>>

IsNopCall ==
  /\ ~Asked("IsNop")
  /\ LET instr == ParseAluInstruction(ucode[1].alu, shader_type) IN
     hooks' = Append(hooks, NopQuery("IsNop", instr, IsNop(instr)))
  /\ UNCHANGED <<ucode, shader_type, backend, sh, an, alog, tr, tl>>

SpecIsNop == IsNopInit /\ [][IsNopCall]_vars

(***************************************************************************)
(* Several ShaderTranslator instances translating one analyzed shader.     *)
(* tr, tl, hooks and backend are those of the instance that is running;    *)
(* tr.id names it and tr.others holds the instances set aside, each with   *)
(* its own members, Translation, hook calls and backend.  Switch lets      *)
(* another instance run: the steps of the instances interleave at the      *)
(* grain of the translator's actions.  The shader is analyzed once, then   *)
(* each instance translates it once: "alone1" and then "alone2" from       *)
(* beginning to end with no other instance running, after them "first"     *)
(* (with the backend of "alone1") and "second" (with the backend of        *)
(* "alone2") in every interleaving.  "alone1" and "alone2" are new         *)
(* translators; "first" and "second" are new or have translated other      *)
(* shaders before, which tr.used records.  The programs read no            *)
(* instruction outside the buffer, so a translation has one outcome.       *)
(***************************************************************************)
TwoInit ==
  /\ ucode \in
       {<<CfTriple(CfExec("kExec", 1, 2, 5), CfExec("kExecEnd", 3, 1, 0)),
          VertexFetchTriple(VertexFetch(FALSE, 1, 0, 3, 8)),
          VertexFetchTriple([VertexFetch(TRUE, 2, 6, 3, 2) EXCEPT
                               !.src_swizzle = 1]),
          AluTriple(AluRegister(3, 9))>>,
        <<CfTriple(CfBranch("kCondJmp", 1, "cond", 2),
                   CfExec("kExecEnd", 1, 2, 4)),
          AluTriple(AluRegister(3, 9)),
          TextureFetchTriple(TextureFetch("kTextureFetch", 2, 1, 4))>>,
        <<CfTriple(CfExec("kExecEnd", 1, 2, 5), CfReturn),
          VertexFetchTriple([VertexFetch(TRUE, 2, 6, 3, 2) EXCEPT
                               !.src_swizzle = 1]),
          VertexFetchTriple(VertexFetch(FALSE, 1, 0, 3, 8))>>}
  /\ shader_type = "kVertex"
  /\ sh = InitialShader
  /\ an = InitialAnalysis
  /\ alog = <<>>
  /\ tl = InitialTranslation
  /\ hooks = <<>>
  /\ \E b \in {NoBackend,
               [NoBackend EXCEPT !.post = "invalidate"],
               [NoBackend EXCEPT !.emits = "ProcessExecInstructionBegin",
                                 !.is_fatal = TRUE],
               [NoBackend EXCEPT !.emits = "ProcessAluInstruction"]}
             \X {NoBackend,
                 [NoBackend EXCEPT !.emits = "ProcessControlFlowInstructionEnd",
                                   !.is_fatal = TRUE],
                 [NoBackend EXCEPT !.emits = "StartTranslation",
                                   !.modification_register_count = 6]} :
     \E t \in {InitialTranslator, UsedTranslator}
               \X {InitialTranslator, UsedTranslator} :
       /\ backend = b[1]
       /\ tr = InitialTranslator
                 @@ [id |-> "alone1",
                     overlapped |-> FALSE,
                     others |->
                       [k \in {"alone2", "first", "second"} |->
                          [tr |-> (CASE k = "alone2" -> InitialTranslator
                                     [] k = "first" -> t[1]
                                     [] OTHER -> t[2])
                                    @@ [id |-> k,
                                        used |->
                                          \/ k = "first"
                                               /\ t[1] = UsedTranslator
                                          \/ k = "second"
                                               /\ t[2] = UsedTranslator],
                           tl |-> InitialTranslation,
                           hooks |-> <<>>,
                           backend |-> IF k = "first" THEN b[1] ELSE b[2]]]]

\* The running instance is set aside and instance k runs on.  "alone1" and
\* "alone2" are set aside only once they have returned, and never run
\* again.
Switch ==
  /\ an.pc = "idle"
  /\ \E k \in DOMAIN tr.others :
       LET next == tr.others[k]
           returned == tr.pc = "idle" /\ tr.calls > 0
           mine == [tr |-> [f \in DOMAIN tr \ {"others", "overlapped"} |->
                              tr[f]],
                    tl |-> tl, hooks |-> hooks, backend |-> backend]
       IN /\ CASE tr.id = "alone1" -> returned /\ k = "alone2"
               [] tr.id = "alone2" -> returned /\ k \in {"first", "second"}
               [] OTHER -> k \in {"first", "second"}
          /\ ~(next.tr.pc = "idle" /\ next.tr.calls > 0)
          /\ tr' = next.tr
                     @@ [overlapped |->
                           \/ tr.overlapped
                           \/ (tr.pc # "idle" /\ next.tr.pc # "idle"),
                         others |->
                           [i \in (DOMAIN tr.others \ {k}) \cup {tr.id} |->
                              IF i = tr.id THEN mine ELSE tr.others[i]]]
          /\ tl' = next.tl
          /\ hooks' = next.hooks
          /\ backend' = next.backend
  /\ UNCHANGED <<ucode, shader_type, sh, an, alog>>

TwoNext ==
  \/ an.calls = 0 /\ AnalyzeUcode
  \/ ScanStep
  \/ ScanDone
  \/ WalkStep
  \/ ExecStep
  \/ ExecDone
  \/ WalkDone
  \/ sh.is_ucode_analyzed /\ tr.calls = 0 /\ TranslateAnalyzedShader
  \/ PreProcess
  \/ TranslateStep
  \/ TranslateExecStep
  \/ TranslateExecDone
  \/ Complete
  \/ PostTranslation
  \/ Switch

SpecTwo == TwoInit /\ [][TwoNext]_vars

(***************************************************************************)
(* The analyzer over buffers of one or two pairs of allocs, a pair with an *)
(* exec block and two ALU instructions: export writes after zero to five   *)
(* memory allocs.  The longer exec block reads one instruction past the    *)
(* end of the buffer.  And over buffers of two pairs, each an alloc or a   *)
(* nop with an exec block, the first of one ALU instruction and the second *)
(* of two: export writes in two slots.                                     *)
(***************************************************************************)
AllocsInit ==
  /\ ucode \in
       {allocs \o <<CfTriple(before, CfExec(opcode[1], Len(allocs) + 1,
                                            opcode[2], 0))>>
               \o instructions :
          allocs \in SeqsUpTo({CfTriple(CfAlloc("kMemory"), CfAlloc("kMemory")),
                               CfTriple(CfAlloc("kInterpolators"),
                                        CfAlloc("kMemory"))}, 2) \ {<<>>},
          before \in {CfAlloc("kMemory"), CfNop},
          opcode \in {<<"kExecEnd", 2>>, <<"kExec", 3>>},
          instructions \in
            {<<AluTriple(a), AluTriple(b)>> :
               a, b \in {AluExportAddress(12), AluExportData(0),
                         AluExportData(1), AluRegister(3, 9)}}}
       \cup
       {<<CfTriple(first, CfExec("kExec", 2, 1, 0)),
          CfTriple(second, CfExec("kExecEnd", 3, 2, 0)),
          AluTriple(a), AluTriple(b), AluTriple(c)>> :
          first, second \in {CfAlloc("kMemory"), CfNop},
          a, b, c \in {AluExportAddress(12), AluExportAddress(13),
                       AluExportData(0), AluRegister(3, 9)}}
  /\ shader_type \in {"kVertex", "kPixel"}
  /\ backend = NoBackend
  /\ sh = InitialShader
  /\ an = InitialAnalysis
  /\ alog = <<>>
  /\ tr = InitialTranslator
  /\ tl = InitialTranslation
  /\ hooks = <<>>

SpecAllocs == AllocsInit /\ [][AnalysisNext]_vars

(***************************************************************************)
(* Two AnalyzeUcode calls on one shader from two threads, with nothing     *)
(* serializing them.  sh is the shader both calls work on; an holds the    *)
(* call position and the locals of the thread that is running (an.id) and  *)
(* an.other those of the thread set aside.  AnalysisSwitch lets the other  *)
(* thread run: the steps of the two calls interleave at the grain of the   *)
(* analyzer's actions.  Each thread calls once.  The programs read no      *)
(* instruction outside the buffer.                                         *)
(***************************************************************************)
RaceInit ==
  /\ ucode \in
       {<<pair>> \o instructions :
          pair \in {CfTriple(CfExec("kExec", 1, 2, 5), CfNop),
                    CfTriple(CfExec("kExecEnd", 1, 2, 4), CfReturn)},
          instructions \in
            {<<a, b>> :
               a, b \in {VertexFetchTriple(VertexFetch(FALSE, 1, 0, 3, 8)),
                         TextureFetchTriple(TextureFetch("kTextureFetch",
                                                         2, 1, 4)),
                         AluTriple(AluRegister(3, 9))}}}
  /\ shader_type = "kVertex"
  /\ backend = NoBackend
  /\ sh = InitialShader
  /\ an = InitialAnalysis
            @@ [id |-> 1, other |-> InitialAnalysis @@ [id |-> 2]]
  /\ alog = <<>>
  /\ tr = InitialTranslator
  /\ tl = InitialTranslation
  /\ hooks = <<>>

\* Lines 48-51 and 227: is_ucode_analyzed_ is a plain member read at entry
\* and written at the end, and nothing is locked: the other thread can run
\* between any two steps of a call.
AnalysisSwitch ==
  /\ an' = an.other
             @@ [other |-> [f \in DOMAIN an \ {"other"} |-> an[f]]]
  /\ UNCHANGED <<ucode, shader_type, backend, sh, alog, tr, tl, hooks>>

RaceNext ==
  \/ an.calls = 0 /\ AnalyzeUcode
  \/ ScanStep
  \/ ScanDone
  \/ WalkStep
  \/ ExecStep
  \/ ExecDone
  \/ WalkDone
  \/ AnalysisSwitch

SpecRace == RaceInit /\ [][RaceNext]_vars

(***************************************************************************)
(* Properties.                                                             *)
(***************************************************************************)
\* AnalyzeUcode has run to its end.
Analyzed == sh.is_ucode_analyzed /\ an.pc = "idle"

\* The control-flow instructions of pairs 0..k-1.
CfOfPairs(k) == {ucode[p].a : p \in 1..k} \cup {ucode[p].b : p \in 1..k}

SetMin(S) == CHOOSE x \in S : \A y \in S : x <= y

\* min(word count / 3, least exec-family target address in pairs 0..k-1).
PrefixBound(k) ==
  SetMin({Len(ucode)}
           \cup {cf.address : cf \in {c \in CfOfPairs(k) :
                                        IsControlFlowOpcodeExec(c.opcode)}})

\* C1: after AnalyzeUcode, for every memexport slot i < kMaxMemExports,
\* memexport_eM_written_[i] is non-zero iff bit i of the eA-written mask (as
\* the cleanup left it) is set, and with an empty eA-written mask there are
\* no memexport stream constants.
C1_MemExportInvariant ==
  Analyzed =>
    /\ \A i \in 0..(kMaxMemExports - 1) :
         (sh.memexport_eM_written[i] # {})
           <=> (i \in an.loc.memexport_eA_written)
    /\ (an.loc.memexport_eA_written = {}
          => sh.memexport_stream_constants = {})

\* A finished analysis in which one slot kept its eA bit, its eM mask and
\* its stream constant.
C1_Witness ==
  /\ Analyzed
  /\ an.loc.memexport_eA_written # {}
  /\ \E i \in 0..(kMaxMemExports - 1) : sh.memexport_eM_written[i] # {}
  /\ sh.memexport_stream_constants # {}

\* C2: the program bound never exceeds the number of triples of the buffer,
\* and no step of the bound-discovery scan raises it.
C2_BoundShrinks ==
  /\ [](an.pc # "idle" \/ sh.is_ucode_analyzed
          => sh.cf_pair_index_bound <= Len(ucode))
  /\ [][an.pc = "scan" /\ an'.pc = "scan"
          => sh'.cf_pair_index_bound <= sh.cf_pair_index_bound]_vars

\* The scan has passed an exec that shrank the bound and then an exec with
\* a larger target address.
C2_Witness ==
  /\ an.pc = "scan"
  /\ an.i = 1 /\ an.j = 0
  /\ IsControlFlowOpcodeExec(ucode[1].a.opcode)
  /\ IsControlFlowOpcodeExec(ucode[1].b.opcode)
  /\ ucode[1].a.address < ucode[1].b.address
  /\ sh.cf_pair_index_bound = ucode[1].a.address
  /\ sh.cf_pair_index_bound < Len(ucode)

\* C3 as claimed: the final bound is the smaller of the triple count and the
\* least exec-family target address over all pairs of the buffer.
C3_Original == Analyzed => sh.cf_pair_index_bound = PrefixBound(Len(ucode))

\* The number of pairs the scan examines: the first index that is not below
\* the bound the pairs before it leave.
ScanLength ==
  CHOOSE k \in 0..Len(ucode) :
    /\ k >= PrefixBound(k)
    /\ \A m \in 0..(k - 1) : m < PrefixBound(m)

\* C3, amended: the scan examines pairs in index order while the pair index
\* is below the bound as shrunk so far, and no pair from the first index at
\* or above it on; the final bound is the smaller of the triple count and
\* the least exec-family target address over the examined pairs.
C3_ScanStopsAtBound ==
  /\ (an.pc = "scan" /\ an.j = 0
        => /\ an.i <= ScanLength
           /\ sh.cf_pair_index_bound = PrefixBound(an.i))
  /\ (Analyzed => sh.cf_pair_index_bound = PrefixBound(ScanLength))

\* A finished analysis whose bound is not the minimum over the whole
\* buffer: an exec with a smaller target lies in a pair that was not
\* examined.
C3_Witness ==
  /\ Analyzed
  /\ ScanLength < Len(ucode)
  /\ PrefixBound(Len(ucode)) < sh.cf_pair_index_bound

\* The program of scenario A: exec addr=0 count=1, then exec-end addr=1
\* count=0.
ScenarioA ==
  /\ Len(ucode) >= 1
  /\ ucode[1].a = CfExec("kExec", 0, 1, 0)
  /\ ucode[1].b = CfExec("kExecEnd", 1, 0, 0)

AluVisits == Len(SelectSeq(alog, LAMBDA e : e.ev = "alu"))

\* C4 as claimed: scenario A has a bound of 2 pairs and one visited ALU
\* instruction.
C4_Original ==
  Analyzed /\ ScenarioA => sh.cf_pair_index_bound = 2 /\ AluVisits = 1

\* C4, amended: for scenario A the bound is 0 pairs (the first exec's target
\* address 0 clamps it), and the analysis walk visits no control-flow
\* instruction and no ALU or fetch instruction.
C4_ScenarioA ==
  ScenarioA /\ (Analyzed \/ an.pc = "walk")
    => sh.cf_pair_index_bound = 0 /\ alog = <<>>

\* Scenario A in a buffer of two triples, analyzed.
C4_Witness == Analyzed /\ ScenarioA /\ Len(ucode) = 2

\* The current translation ran a hook in which the backend reported a fatal
\* error.
FatalEmitted ==
  /\ backend.is_fatal
  /\ \E k \in 1..Len(hooks) : hooks[k].hook = backend.emits

\* C5 as claimed: once validity is computed (CompleteTranslation has
\* returned, PostTranslation has not run yet), the translation is valid iff
\* no hook run so far, CompleteTranslation included, reported a fatal error.
C5_ValidIffNoFatal == tr.pc = "post" => (tl.is_valid <=> ~FatalEmitted)

C7_AnalyzeIdempotent ==
  [][sh.is_ucode_analyzed
       => sh' = sh /\ alog' = alog /\ an'.loc = an.loc /\ an'.pc = "idle"]_vars

\* AnalyzeUcode was called a second time on a shader that has bindings,
\* each recorded once.
C7_Witness ==
  /\ Analyzed
  /\ an.calls = 2
  /\ Len(sh.vertex_bindings) = 1
  /\ Len(sh.texture_bindings) = 1
  /\ sh.cf_pair_index_bound >= 1

\* The positions of the hook log holding a given hook.
HookPositions(hook) == {k \in 1..Len(hooks) : hooks[k].hook = hook}

\* The control-flow instruction with control-flow index c.
CfIndexed(c) == CfAt(c \div 2, c % 2)

\* TranslateAnalyzedShader has run all its hooks and returned.
Translated == tr.pc = "idle" /\ hooks # <<>>

\* C8: StartTranslation is the first hook and runs once; the pre-processing
\* hook is the second, runs once and gets the 2 * bound control-flow
\* instructions in control-flow index order; every hook of the main walk
\* comes after it and before CompleteTranslation, which runs once;
\* PostTranslation runs once, directly after CompleteTranslation, and is the
\* last hook.
C8_HookOrder ==
  /\ HookPositions("StartTranslation") = (IF hooks = <<>> THEN {} ELSE {1})
  /\ HookPositions("PreProcessControlFlowInstructions")
       = (IF Len(hooks) < 2 THEN {} ELSE {2})
  /\ Len(hooks) >= 2
       => /\ hooks[2].at = 2 * sh.cf_pair_index_bound
          /\ Len(tr.cf_instructions) = 2 * sh.cf_pair_index_bound
          /\ \A c \in 0..(2 * sh.cf_pair_index_bound - 1) :
               tr.cf_instructions[c + 1] = CfIndexed(c)
  /\ \A k \in HookPositions("CompleteTranslation") :
       /\ k >= Len(hooks) - 1
       /\ k >= 3
       /\ k > 3 => hooks[k - 1].hook = "ProcessControlFlowInstructionEnd"
       /\ tr.pc \in {"post", "idle"}
  /\ \A k \in HookPositions("PostTranslation") :
       k = Len(hooks) /\ hooks[k - 1].hook = "CompleteTranslation"
  /\ tr.pc = "post" => hooks[Len(hooks)].hook = "CompleteTranslation"
  /\ Translated => hooks[Len(hooks)].hook = "PostTranslation"

\* A finished translation of a program of two pairs, with control-flow
\* hooks between the pre-processing hook and CompleteTranslation.
C8_Witness ==
  /\ Translated
  /\ sh.cf_pair_index_bound = 2
  /\ Len(tr.cf_instructions) = 4
  /\ Len(hooks) > 4
  /\ hooks[3].hook = "ProcessControlFlowInstructionBegin"

\* C9: ProcessLabel(c) runs only for a c of the label set, at most once,
\* directly before ProcessControlFlowInstructionBegin(c) and directly after
\* ProcessControlFlowInstructionEnd(c - 1) (after the pre-processing hook
\* for c = 0); the instruction of every c of the label set begins with it,
\* and the main walk begins each c below 2 * bound once, in index order.
C9_Labels ==
  /\ \A k \in HookPositions("ProcessLabel") :
       LET c == hooks[k].at IN
       /\ c \in sh.label_addresses
       /\ c \in 0..(2 * sh.cf_pair_index_bound - 1)
       /\ k < Len(hooks)
       /\ hooks[k + 1] = Hook("ProcessControlFlowInstructionBegin", c)
       /\ hooks[k - 1] =
            (IF c = 0
             THEN Hook("PreProcessControlFlowInstructions",
                       2 * sh.cf_pair_index_bound)
             ELSE Hook("ProcessControlFlowInstructionEnd", c - 1))
       /\ \A m \in HookPositions("ProcessLabel") : hooks[m].at = c => m = k
  /\ \A k \in HookPositions("ProcessControlFlowInstructionBegin") :
       LET c == hooks[k].at IN
       /\ c \in sh.label_addresses => hooks[k - 1] = Hook("ProcessLabel", c)
       /\ \A m \in HookPositions("ProcessControlFlowInstructionBegin") :
            m < k <=> hooks[m].at < c
  /\ tr.pc \in {"post", "idle"} /\ hooks # <<>>
       => {hooks[k].at : k \in HookPositions("ProcessControlFlowInstructionBegin")}
            = 0..(2 * sh.cf_pair_index_bound - 1)

\* A finished translation that ran ProcessLabel for an instruction other
\* than the first, and whose label set also names an instruction it did not
\* walk.
C9_Witness ==
  /\ Translated
  /\ \E k \in HookPositions("ProcessLabel") : hooks[k].at > 0
  /\ \E c \in sh.label_addresses : c >= 2 * sh.cf_pair_index_bound
  /\ \E c \in 0..(2 * sh.cf_pair_index_bound - 1) : c \notin sh.label_addresses

InstructionHooks ==
  {"ProcessAluInstruction", "ProcessVertexFetchInstruction",
   "ProcessTextureFetchInstruction"}

InstructionPositions == {k \in 1..Len(hooks) : hooks[k].hook \in InstructionHooks}

\* The instruction addresses the exec-family instructions inside the bound
\* name.
ReferencedAddresses ==
  UNION {LET cf == CfIndexed(c) IN
         IF IsControlFlowOpcodeExec(cf.opcode)
         THEN cf.address..(cf.address + cf.count - 1) ELSE {} :
           c \in 0..(2 * sh.cf_pair_index_bound - 1)}

\* C10 as claimed: the addresses given to the instruction hooks increase
\* strictly over the whole translation, and a finished translation has
\* given every referenced address to an instruction hook once.
C10_Original ==
  /\ \A k, m \in InstructionPositions : k < m => hooks[k].at < hooks[m].at
  /\ Translated
       => \A a \in ReferencedAddresses :
            Cardinality({k \in InstructionPositions : hooks[k].at = a}) = 1

RECURSIVE SequenceAt(_, _)
\* The sequence bits left for the m-th instruction of an exec block.
SequenceAt(sequence, m) ==
  IF m = 1 THEN sequence ELSE SequenceAt(sequence \div 4, m - 1)

\* C10, amended: every ProcessExecInstructionBegin(c) is followed by one
\* instruction hook per instruction of the block of c, for the addresses
\* address .. address + count - 1 in increasing order (ALU or fetch as the
\* block's sequence bits say), and then by ProcessExecInstructionEnd(c);
\* instruction hooks run nowhere else.  Each block is processed on its own:
\* an address that several blocks name is processed once per block.
C10_PerExecBlock ==
  /\ \A k \in HookPositions("ProcessExecInstructionBegin") :
       LET instr == ParseControlFlowExec(CfIndexed(hooks[k].at), hooks[k].at)
           n == instr.instruction_count
       IN /\ \A m \in 1..n :
               k + m <= Len(hooks)
                 => /\ hooks[k + m].hook \in InstructionHooks
                    /\ hooks[k + m].at = instr.instruction_address + m - 1
                    /\ hooks[k + m].hook = "ProcessAluInstruction"
                         <=> SequenceAt(instr.sequence, m) % 2 = 0
          /\ k + n + 1 <= Len(hooks)
               => hooks[k + n + 1] = Hook("ProcessExecInstructionEnd", hooks[k].at)
          /\ k + n + 1 > Len(hooks) => tr.pc \in {"exec", "fault"}
  /\ \A p \in InstructionPositions :
       \E k \in HookPositions("ProcessExecInstructionBegin") :
         /\ k < p
         /\ \A q \in (k + 1)..p : q \in InstructionPositions
  /\ tr.pc \in {"post", "idle"} /\ hooks # <<>>
       => \A c \in 0..(2 * sh.cf_pair_index_bound - 1) :
            IsControlFlowOpcodeExec(CfIndexed(c).opcode)
              => Cardinality({k \in HookPositions("ProcessExecInstructionBegin") :
                                hooks[k].at = c}) = 1

\* A finished translation in which two exec blocks named the same address:
\* it was processed twice, once as an ALU and once as a fetch instruction.
C10_Witness ==
  /\ Translated
  /\ \E k, m \in InstructionPositions :
       /\ k < m
       /\ hooks[k].at = hooks[m].at
       /\ hooks[k].hook = "ProcessAluInstruction"
       /\ hooks[m].hook # "ProcessAluInstruction"

\* The fetch constants of the texture bindings before position i.
TextureSlotsBefore(i) ==
  {sh.texture_bindings[j].fetch_constant : j \in 1..(i - 1)}

\* C11: two entries of the texture binding table have the same binding_index
\* iff they have the same fetch constant, and the first entry of a fetch
\* constant has the number of distinct fetch constants before it as its
\* index (0, 1, 2, ... in order of first occurrence).
C11_TextureBindingIndices ==
  LET bindings == sh.texture_bindings IN
  /\ \A i, j \in 1..Len(bindings) :
       bindings[i].binding_index = bindings[j].binding_index
         <=> bindings[i].fetch_constant = bindings[j].fetch_constant
  /\ \A i \in 1..Len(bindings) :
       bindings[i].fetch_constant \notin TextureSlotsBefore(i)
         => bindings[i].binding_index = Cardinality(TextureSlotsBefore(i))
  /\ an.loc.unique_texture_bindings
       = Cardinality(TextureSlotsBefore(Len(bindings) + 1))

\* An analyzed shader with three texture fetches: the first and the third
\* of one fetch constant (index 0), the second of another (index 1).
C11_Witness ==
  /\ Analyzed
  /\ Len(sh.texture_bindings) = 3
  /\ sh.texture_bindings[1].fetch_constant
       = sh.texture_bindings[3].fetch_constant
  /\ sh.texture_bindings[1].fetch_constant
       # sh.texture_bindings[2].fetch_constant
  /\ sh.texture_bindings[1].binding_index = 0
  /\ sh.texture_bindings[2].binding_index = 1
  /\ sh.texture_bindings[3].binding_index = 0

SetMax(S) == CHOOSE x \in S : \A y \in S : x >= y

\* The vertex fetches of the analysis pass and of the current translation,
\* as positions of alog and of hooks.
AnalysisVertexFetches == {k \in 1..Len(alog) : alog[k].ev = "vfetch"}
TranslationVertexFetches == HookPositions("ProcessVertexFetchInstruction")

\* The full vertex fetches among positions before position k of log.
FullBefore(log, positions, k) ==
  {j \in positions : j < k /\ ~log[j].op.is_mini_fetch}

\* Every mini fetch of the pass that has a full fetch before it is decoded
\* with the source register, addressing mode, swizzle and stride of the
\* latest one.
MiniUsesPreviousFull(log, positions) ==
  \A k \in positions :
    log[k].op.is_mini_fetch /\ FullBefore(log, positions, k) # {}
      => LET full == log[SetMax(FullBefore(log, positions, k))] IN
         /\ log[k].instr.operands[1].storage_index
              = full.instr.operands[1].storage_index
         /\ log[k].instr.operands[1].storage_addressing_mode
              = full.instr.operands[1].storage_addressing_mode
         /\ log[k].instr.operands[1].components
              = full.instr.operands[1].components
         /\ log[k].instr.attributes.stride = full.instr.attributes.stride
         /\ full.instr.operands[1].storage_index = full.op.src
         /\ full.instr.attributes.stride = full.op.stride

\* The pass's cache holds the latest full fetch visited, and the zeroed
\* instruction before the first one.
CacheIsLatestFull(log, positions, cache) ==
  LET fulls == FullBefore(log, positions, Len(log) + 1) IN
  cache = IF fulls = {} THEN ZeroVertexFetch ELSE log[SetMax(fulls)].op

\* C12: in the analysis pass and in a translation, a mini vertex fetch is
\* decoded with the source register index, addressing mode, swizzle and
\* stride of the latest full vertex fetch visited before it in that pass,
\* and the pass's cache is replaced by every full fetch and by no mini
\* fetch.
C12_MiniFetchUsesFull ==
  /\ MiniUsesPreviousFull(alog, AnalysisVertexFetches)
  /\ CacheIsLatestFull(alog, AnalysisVertexFetches,
                       an.loc.previous_vfetch_full)
  /\ MiniUsesPreviousFull(hooks, TranslationVertexFetches)
  /\ hooks # <<>>
       => CacheIsLatestFull(hooks, TranslationVertexFetches,
                            tr.previous_vfetch_full)

\* A translation of an analyzed shader has finished in which a mini fetch
\* with other source bits of its own followed a full fetch, in both passes.
C12_Witness ==
  /\ Translated
  /\ \E j, k \in TranslationVertexFetches :
       /\ j < k
       /\ ~hooks[j].op.is_mini_fetch /\ hooks[k].op.is_mini_fetch
       /\ hooks[k].op.src # hooks[j].op.src
       /\ hooks[k].op.stride # hooks[j].op.stride
       /\ hooks[k].op.is_src_relative # hooks[j].op.is_src_relative
       /\ hooks[k].instr.operands[1].storage_index = hooks[j].op.src
  /\ \E j, k \in AnalysisVertexFetches :
       /\ j < k
       /\ ~alog[j].op.is_mini_fetch /\ alog[k].op.is_mini_fetch
       /\ alog[k].instr.attributes.stride = alog[j].op.stride
       /\ alog[k].op.stride # alog[j].op.stride

\* The visited vertex fetches that fetch something, in visit order, and
\* those among them of one fetch constant.
IsBindingFetch(e) ==
  e.ev = "vfetch" /\ GetUsedResultComponents(e.instr.result) # {}

BindingFetches == SelectSeq(alog, IsBindingFetch)

FetchesOfSlot(fetch_constant) ==
  SelectSeq(BindingFetches,
            LAMBDA e : e.op.fetch_constant_index = fetch_constant)

\* The position in BindingFetches of the first fetch of a fetch constant.
FirstFetchOfSlot(fetch_constant) ==
  SetMin({k \in 1..Len(BindingFetches) :
            BindingFetches[k].op.fetch_constant_index = fetch_constant})

\* C13: the vertex binding table has one binding for each fetch constant
\* used by a visited vertex fetch that fetches something: the fetch
\* constants are pairwise distinct, bindings are in order of first use with
\* binding_index equal to the position, a binding's attributes are the
\* decoded fetches of its fetch constant in visit order, and stride_words
\* is the stride of the fetch that created the binding.
C13_VertexBindings ==
  LET bindings == sh.vertex_bindings IN
  /\ \A i, j \in 1..Len(bindings) :
       bindings[i].fetch_constant = bindings[j].fetch_constant => i = j
  /\ {bindings[i].fetch_constant : i \in 1..Len(bindings)}
       = {BindingFetches[k].op.fetch_constant_index :
            k \in 1..Len(BindingFetches)}
  /\ \A i \in 1..Len(bindings) :
       LET fetches == FetchesOfSlot(bindings[i].fetch_constant) IN
       /\ bindings[i].binding_index = i - 1
       /\ Len(bindings[i].attributes) = Len(fetches)
       /\ \A k \in 1..Len(fetches) :
            bindings[i].attributes[k] = fetches[k].instr
       /\ bindings[i].stride_words = fetches[1].instr.attributes.stride
       /\ \A j \in 1..(i - 1) :
            FirstFetchOfSlot(bindings[j].fetch_constant)
              < FirstFetchOfSlot(bindings[i].fetch_constant)

\* Scenario B: the analysis visited a full fetch of fetch constant 3 with
\* stride 8 and then a mini fetch of fetch constant 3, and nothing else that
\* fetches; there is one binding, with two attributes and stride_words 8.
C13_Witness ==
  /\ Analyzed
  /\ Len(BindingFetches) = 2
  /\ ~BindingFetches[1].op.is_mini_fetch
  /\ BindingFetches[1].op.fetch_constant_index = 3
  /\ BindingFetches[1].op.stride = 8
  /\ BindingFetches[2].op.is_mini_fetch
  /\ BindingFetches[2].op.fetch_constant_index = 3
  /\ Len(sh.vertex_bindings) = 1
  /\ Len(sh.vertex_bindings[1].attributes) = 2
  /\ sh.vertex_bindings[1].stride_words = 8

\* C14 as claimed: after analysis every vertex binding has a non-zero
\* stride_words, and every fetch recorded as one of its attributes has
\* stride 0 or the binding's stride_words.
C14_StridesAgree ==
  Analyzed
    => \A i \in 1..Len(sh.vertex_bindings) :
         LET binding == sh.vertex_bindings[i] IN
         /\ binding.stride_words # 0
         /\ \A k \in 1..Len(binding.attributes) :
              \/ binding.attributes[k].attributes.stride = 0
              \/ binding.attributes[k].attributes.stride = binding.stride_words

\* The operands the analysis handed to GatherOperandInformation: those of
\* every visited ALU and texture fetch instruction, and of every visited
\* vertex fetch that fetches something.
OperandsOf(instr_operands) ==
  {instr_operands[i] : i \in 1..Len(instr_operands)}

GatheredOperands ==
  UNION {CASE alog[k].ev = "alu" ->
                OperandsOf(alog[k].instr.vector_operands)
                  \cup OperandsOf(alog[k].instr.scalar_operands)
           [] alog[k].ev = "tfetch" -> OperandsOf(alog[k].instr.operands)
           [] IsBindingFetch(alog[k]) -> OperandsOf(alog[k].instr.operands)
           [] OTHER -> {} :
         k \in 1..Len(alog)}

GatheredFloatConstants ==
  {o \in GatheredOperands : o.storage_source = "kConstantFloat"}

FloatDynamicallyAddressed ==
  \E o \in GatheredFloatConstants : o.storage_addressing_mode # "kStatic"

\* C15: after analysis float_count is 256 if a gathered float-constant
\* operand was not statically addressed; otherwise it is the number of bits
\* of float_bitmap, and bit k is set exactly when a gathered operand is the
\* statically addressed float constant k.
C15_FloatCount ==
  Analyzed
    => IF FloatDynamicallyAddressed
       THEN sh.float_count = 256
       ELSE /\ sh.float_count = Cardinality(sh.float_bitmap)
            /\ sh.float_bitmap
                 = {o.storage_index : o \in GatheredFloatConstants}

\* An analyzed shader that reads one float constant statically and another
\* one relative to the address register.
C15_Witness ==
  /\ Analyzed
  /\ FloatDynamicallyAddressed
  /\ \E o \in GatheredFloatConstants : o.storage_addressing_mode = "kStatic"
  /\ sh.float_count = 256

\* The ALU instruction the exec block in progress has just analyzed.
JustAnalyzedAlu ==
  /\ an.pc = "exec"
  /\ alog # <<>>
  /\ alog[Len(alog)].ev = "alu"

\* instr is a mad into the export address whose third vector operand is a
\* static float constant, neither negated nor made absolute.
IsMadToExportAddress(instr) ==
  /\ instr.vector_opcode = kMad
  /\ instr.vector_and_constant_result.storage_target = "kExportAddress"
  /\ instr.vector_operands[3].storage_source = "kConstantFloat"
  /\ instr.vector_operands[3].storage_addressing_mode = "kStatic"
  /\ ~instr.vector_operands[3].is_negated
  /\ ~instr.vector_operands[3].is_absolute_value

\* The analyzer has recorded the constant of instr for the current
\* allocation.
StreamConstantRecorded(instr) ==
  /\ (an.loc.memexport_alloc_count - 1) \in an.loc.memexport_eA_written
  /\ instr.vector_operands[3].storage_index \in sh.memexport_stream_constants

\* C16 as claimed: for every such mad, GetMemExportStreamConstant() is the
\* constant's index, and with an allocation count in 1..kMaxMemExports the
\* analyzer sets the eA bit of the allocation and records the constant.
C16_Original ==
  JustAnalyzedAlu /\ IsMadToExportAddress(alog[Len(alog)].instr)
    => LET instr == alog[Len(alog)].instr IN
       /\ GetMemExportStreamConstant(instr)
            = instr.vector_operands[3].storage_index
       /\ an.loc.memexport_alloc_count \in 1..kMaxMemExports
            => StreamConstantRecorded(instr)

\* What the claim leaves out: the result is unclamped and all four of its
\* components are written from x, y, z, w, and the constant is read with the
\* identity swizzle.
IsStreamAddressWrite(instr) ==
  /\ IsMadToExportAddress(instr)
  /\ ~instr.vector_and_constant_result.is_clamped
  /\ instr.vector_and_constant_result.original_write_mask = 0..3
  /\ instr.vector_and_constant_result.components = <<"x", "y", "z", "w">>
  /\ instr.vector_operands[3].components = <<"x", "y", "z", "w">>

\* C16, amended: GetMemExportStreamConstant() is the constant's index for a
\* mad into the export address that in addition is unclamped, writes all
\* four components and reads the constant with the identity swizzle, and
\* UINT32_MAX for every other instruction; for the former, with an
\* allocation count in 1..kMaxMemExports, the analyzer sets the eA bit of
\* the allocation and records the constant.
C16_StreamConstant ==
  JustAnalyzedAlu
    => LET instr == alog[Len(alog)].instr IN
       IF IsStreamAddressWrite(instr)
       THEN /\ GetMemExportStreamConstant(instr)
                 = instr.vector_operands[3].storage_index
            /\ an.loc.memexport_alloc_count \in 1..kMaxMemExports
                 => StreamConstantRecorded(instr)
       ELSE GetMemExportStreamConstant(instr) = UINT32_MAX

\* Scenario C: mad eA, r1, r2, c12 has just been analyzed with allocation
\* count 1; bit 0 of the eA mask is set and 12 is a stream constant.
C16_Witness ==
  /\ JustAnalyzedAlu
  /\ IsStreamAddressWrite(alog[Len(alog)].instr)
  /\ alog[Len(alog)].instr.vector_operands[3].storage_index = 12
  /\ an.loc.memexport_alloc_count = 1
  /\ an.loc.memexport_eA_written = {0}
  /\ sh.memexport_stream_constants = {12}

\* A translation of the analyzed shader has been started by the translator.
TranslationStarted == tr.translation = "tl"

\* C17: the register count of a translation is the shader's
\* register_static_address_bound without dynamic register addressing, and
\* the larger of that bound and GetModificationRegisterCount() with it; it
\* is never below the static bound.
C17_RegisterCount ==
  TranslationStarted
    => /\ tr.register_count >= sh.register_static_address_bound
       /\ ~sh.uses_register_dynamic_addressing
            => tr.register_count = sh.register_static_address_bound
       /\ sh.uses_register_dynamic_addressing
            => /\ tr.register_count >= backend.modification_register_count
               /\ tr.register_count \in
                    {sh.register_static_address_bound,
                     backend.modification_register_count}

\* A shader with dynamic register addressing and a static bound below the
\* backend's minimum has been given the backend's minimum.
C17_Witness ==
  /\ TranslationStarted
  /\ sh.uses_register_dynamic_addressing
  /\ sh.register_static_address_bound > 0
  /\ sh.register_static_address_bound < backend.modification_register_count
  /\ tr.register_count = backend.modification_register_count

\* A shader without dynamic register addressing keeps its static bound
\* although the backend's minimum is larger.
C17_WitnessStatic ==
  /\ TranslationStarted
  /\ ~sh.uses_register_dynamic_addressing
  /\ sh.register_static_address_bound > 0
  /\ sh.register_static_address_bound < backend.modification_register_count
  /\ tr.register_count = sh.register_static_address_bound

\* A shader with dynamic register addressing whose static bound exceeds the
\* backend's minimum keeps its static bound.
C17_WitnessAbove ==
  /\ TranslationStarted
  /\ sh.uses_register_dynamic_addressing
  /\ sh.register_static_address_bound > backend.modification_register_count
  /\ backend.modification_register_count > 0
  /\ tr.register_count = sh.register_static_address_bound

\* The translation's error list holds no fatal error.
NoFatalError == \A k \in 1..Len(tl.errors) : ~tl.errors[k].is_fatal

\* PostTranslation() has been called in the translation in progress or
\* last made.
PostTranslationCalled ==
  \E k \in 1..Len(hooks) : hooks[k].hook = "PostTranslation"

\* What TranslateAnalyzedShader returns for a validity.
ReturnedFor(is_valid) == IF is_valid THEN "true" ELSE "false"

\* C18: PostTranslation() is called only once is_translated_ is set and
\* is_valid_ has been computed from the translation's error list, after
\* CompleteTranslation() and as the last hook; TranslateAnalyzedShader
\* returns is_valid_ as PostTranslation() left it, so the caller sees an
\* override.
C18_PostTranslation ==
  /\ tr.pc = "post"
       => /\ ~PostTranslationCalled
          /\ hooks[Len(hooks)].hook = "CompleteTranslation"
          /\ tl.is_translated
          /\ tl.is_valid = NoFatalError
  /\ tr.pc \notin {"post", "idle"} => ~PostTranslationCalled
  /\ PostTranslationCalled
       => /\ tr.pc = "idle"
          /\ hooks[Len(hooks)].hook = "PostTranslation"
          /\ hooks[Len(hooks) - 1].hook = "CompleteTranslation"
          /\ \A k \in 1..(Len(hooks) - 1) : hooks[k].hook # "PostTranslation"
          /\ tl.is_translated
          /\ tr.result = ReturnedFor(tl.is_valid)
          /\ backend.post = "keep" => tl.is_valid = NoFatalError
          /\ backend.post = "validate" => tl.is_valid
          /\ backend.post = "invalidate" => ~tl.is_valid

\* A translation without a fatal error whose PostTranslation() cleared
\* is_valid_ has returned false.
C18_Witness ==
  /\ PostTranslationCalled
  /\ tr.pc = "idle"
  /\ backend.post = "invalidate"
  /\ NoFatalError
  /\ tl.is_translated
  /\ ~tl.is_valid
  /\ tr.result = "false"

\* A translation with a fatal error has reached the call of
\* PostTranslation() with is_valid_ false.
C18_WitnessFatal ==
  /\ tr.pc = "post"
  /\ ~NoFatalError
  /\ tl.is_translated
  /\ ~tl.is_valid

\* The answers given for a predicate of the parsed ALU instruction.
Answers(predicate) ==
  {hooks[k] : k \in {j \in 1..Len(hooks) : hooks[j].hook = predicate}}

\* r0 read unmodified: static, neither negated nor absolute, swizzle xyzw.
RegisterZero ==
  Operand("kRegister", 0, "kStatic", FALSE, FALSE, <<"x", "y", "z", "w">>)

\* max with an empty write mask, unclamped, of r0 and r0.
IsMaxOfNothing(instr) ==
  /\ instr.vector_opcode = kMax
  /\ instr.vector_and_constant_result.original_write_mask = {}
  /\ ~instr.vector_and_constant_result.is_clamped
  /\ instr.vector_operands[1] = RegisterZero
  /\ instr.vector_operands[2] = RegisterZero

\* A result that names r0 with static addressing.
IsStaticRegisterZero(result) ==
  /\ result.storage_target = "kRegister"
  /\ result.storage_index = 0
  /\ result.storage_addressing_mode = "kStatic"

\* C19 as claimed: IsVectorOpDefaultNop() is true iff the instruction is a
\* max of r0 and r0 with an empty write mask, unclamped, and the result
\* targets a register or the scalar op is a default nop.
C19_Original ==
  \A e \in Answers("IsVectorOpDefaultNop") :
    e.result
      <=> /\ IsMaxOfNothing(e.instr)
          /\ \/ e.instr.vector_and_constant_result.storage_target
                  = "kRegister"
             \/ IsScalarOpDefaultNop(e.instr)

\* C19, amended: IsVectorOpDefaultNop() is true iff the instruction is a
\* max of r0 and r0 with an empty write mask, unclamped, and either the
\* result is r0 with static addressing, or the result is not a register and
\* the scalar op is not a default nop.
C19_VectorOpDefaultNop ==
  \A e \in Answers("IsVectorOpDefaultNop") :
    e.result
      <=> /\ IsMaxOfNothing(e.instr)
          /\ \/ IsStaticRegisterZero(e.instr.vector_and_constant_result)
             \/ /\ e.instr.vector_and_constant_result.storage_target
                     # "kRegister"
                /\ ~IsScalarOpDefaultNop(e.instr)

\* IsVectorOpDefaultNop() has answered true for max r0._, r0, r0.
C19_Witness ==
  \E e \in Answers("IsVectorOpDefaultNop") :
    /\ e.result
    /\ IsMaxOfNothing(e.instr)
    /\ IsStaticRegisterZero(e.instr.vector_and_constant_result)

\* IsVectorOpDefaultNop() has answered true for an export whose scalar op
\* is not a default nop.
C19_WitnessExport ==
  \E e \in Answers("IsVectorOpDefaultNop") :
    /\ e.result
    /\ e.instr.vector_and_constant_result.storage_target # "kRegister"
    /\ ~IsScalarOpDefaultNop(e.instr)

\* IsVectorOpDefaultNop() has answered false for a max of r0 and r0 with an
\* empty write mask into a register other than r0.
C19_WitnessOtherRegister ==
  \E e \in Answers("IsVectorOpDefaultNop") :
    /\ ~e.result
    /\ IsMaxOfNothing(e.instr)
    /\ e.instr.vector_and_constant_result.storage_target = "kRegister"
    /\ e.instr.vector_and_constant_result.storage_index # 0

\* retain_prev with an empty write mask, unclamped.
IsRetainPrevOfNothing(instr) ==
  /\ instr.scalar_opcode = kRetainPrev
  /\ instr.scalar_result.original_write_mask = {}
  /\ ~instr.scalar_result.is_clamped

\* C20 as claimed: IsScalarOpDefaultNop() is true iff the scalar op is
\* retain_prev with an empty write mask, unclamped, whatever the storage
\* target, storage index and addressing mode of the scalar result.
C20_Original ==
  \A e \in Answers("IsScalarOpDefaultNop") :
    e.result <=> IsRetainPrevOfNothing(e.instr)

\* C20, amended: IsScalarOpDefaultNop() is true iff the scalar op is
\* retain_prev with an empty write mask, unclamped, and the scalar result,
\* if it targets a register, is r0 with static addressing.
C20_ScalarOpDefaultNop ==
  \A e \in Answers("IsScalarOpDefaultNop") :
    e.result
      <=> /\ IsRetainPrevOfNothing(e.instr)
          /\ e.instr.scalar_result.storage_target = "kRegister"
               => IsStaticRegisterZero(e.instr.scalar_result)

\* IsScalarOpDefaultNop() has answered false for a retain_prev with an empty
\* write mask, unclamped, into a register other than r0 or addressed
\* relatively.
C20_Witness ==
  \E e \in Answers("IsScalarOpDefaultNop") :
    /\ ~e.result
    /\ IsRetainPrevOfNothing(e.instr)
    /\ e.instr.scalar_result.storage_target = "kRegister"
    /\ ~IsStaticRegisterZero(e.instr.scalar_result)

\* IsScalarOpDefaultNop() has answered true for a retain_prev of an export.
C20_WitnessTrue ==
  \E e \in Answers("IsScalarOpDefaultNop") :
    /\ e.result
    /\ e.instr.scalar_result.storage_target # "kRegister"

\* max of r0 and r0 with retain_prev, whatever is written.
IsMaxWithRetainPrev(instr) ==
  /\ instr.vector_opcode = kMax
  /\ instr.vector_operands[1] = RegisterZero
  /\ instr.vector_operands[2] = RegisterZero
  /\ instr.scalar_opcode = kRetainPrev

\* The components a result writes.
WrittenBits(instr) ==
  instr.vector_and_constant_result.original_write_mask
    \cup instr.scalar_result.original_write_mask

\* Exactly one bit of one of the two write masks is set.
OneBitWritten(instr) ==
  Cardinality(instr.vector_and_constant_result.original_write_mask)
    + Cardinality(instr.scalar_result.original_write_mask) = 1

UsedBits(target) ==
  CASE target = "kDepth" -> {0}
    [] target = "kPointSizeEdgeFlagKillVertex" -> {0, 1, 2}
    [] target = "kNone" -> {}
    [] OTHER -> {0, 1, 2, 3}

C21_WitnessNop ==
  \E e \in Answers("IsNop") :
    /\ IsMaxWithRetainPrev(e.instr)
    /\ WrittenBits(e.instr) = {}
    /\ e.instr.vector_and_constant_result.storage_target = "kRegister"
    /\ e.result

\* IsNop() has answered true for a max r0, r0 + retain_prev that writes the
\* y component of the depth export.
C21_WitnessDepth ==
  \E e \in Answers("IsNop") :
    /\ IsMaxWithRetainPrev(e.instr)
    /\ WrittenBits(e.instr) = {1}
    /\ e.instr.vector_and_constant_result.storage_target = "kDepth"
    /\ e.result

\* The control-flow instructions that carry a target address.
HasTargetAddress(cf) ==
  cf.opcode \in {"kCondCall", "kCondJmp", "kLoopStart", "kLoopEnd"}

\* The control-flow readings of every triple of the buffer.
BufferControlFlow ==
  {ucode[k].a : k \in 1..Len(ucode)} \cup {ucode[k].b : k \in 1..Len(ucode)}

\* C22: after analysis, every label is the target address of a conditional
\* call, conditional jump, loop start or loop end of the buffer, and every
\* such instruction at a control-flow index below twice the final bound has
\* its target address in the label set.
C22_Labels ==
  Analyzed
    => /\ \A address \in sh.label_addresses :
            \E cf \in BufferControlFlow :
              HasTargetAddress(cf) /\ cf.address = address
       /\ \A i \in 0..(sh.cf_pair_index_bound - 1) : \A j \in {0, 1} :
            HasTargetAddress(CfAt(i, j))
              => CfAt(i, j).address \in sh.label_addresses

\* An analyzed shader whose bound holds a conditional call and a loop start
\* next to instructions without a target, with exactly their two targets as
\* labels.
C22_Witness ==
  /\ Analyzed
  /\ sh.cf_pair_index_bound >= 2
  /\ \E i \in 0..(sh.cf_pair_index_bound - 1) :
       /\ CfAt(i, 0).opcode = "kCondCall"
       /\ CfAt(i, 1).opcode = "kLoopStart"
  /\ \E i \in 0..(sh.cf_pair_index_bound - 1) : ~HasTargetAddress(CfAt(i, 1))
  /\ sh.label_addresses = {1, 3}

\* The ALU instructions analyzed so far.
AnalyzedAlus == {alog[k] : k \in {j \in 1..Len(alog) : alog[j].ev = "alu"}}

\* The const slot of source i chosen by position: 0 if every earlier
\* source is a register, 1 otherwise.
PositionalSlot(op, i) ==
  IF \A k \in 1..(i - 1) : op.src_is_temp[k] THEN 0 ELSE 1

SlotAddressed(op, slot) ==
  IF slot = 0 THEN op.is_const_0_addressed ELSE op.is_const_1_addressed

\* The operand, if a float constant, is static exactly when the slot of
\* source i chosen by position is not addressed.
ConstantByPosition(op, operand, i) ==
  operand.storage_source = "kConstantFloat"
    => (operand.storage_addressing_mode = "kStatic"
          <=> ~SlotAddressed(op, PositionalSlot(op, i)))

\* The vector operands and the operand of a one-operand scalar opcode
\* follow the positional rule.
PositionalVectorAndScalar ==
  \A e \in AnalyzedAlus :
    /\ \A i \in 1..Len(e.instr.vector_operands) :
         ConstantByPosition(e.op, e.instr.vector_operands[i], i)
    /\ Len(e.instr.scalar_operands) = 1
         => ConstantByPosition(e.op, e.instr.scalar_operands[1], 3)

\* C23: every float-constant operand of an ALU instruction, the constant
\* operand of a two-operand scalar opcode included, is static exactly when
\* the const slot chosen by its position (0 if all earlier sources are
\* registers, 1 otherwise) is not addressed.
C23_ConstSlot ==
  /\ PositionalVectorAndScalar
  /\ \A e \in AnalyzedAlus :
       Len(e.instr.scalar_operands) = 2
         => ConstantByPosition(e.op, e.instr.scalar_operands[1], 3)

\* Instance id of the translators, running or set aside.
InstanceOf(id) ==
  IF tr.id = id
  THEN [tr |-> tr, tl |-> tl, hooks |-> hooks, backend |-> backend]
  ELSE tr.others[id]

\* The instance has translated the shader and returned.
Returned(id) ==
  InstanceOf(id).tr.pc = "idle" /\ InstanceOf(id).tr.calls > 0

\* Two instances made the same hook calls and produced the same error
\* list, validity and return value.
SameOutcome(a, b) ==
  /\ InstanceOf(a).hooks = InstanceOf(b).hooks
  /\ InstanceOf(a).tl.errors = InstanceOf(b).tl.errors
  /\ InstanceOf(a).tl.is_valid = InstanceOf(b).tl.is_valid
  /\ InstanceOf(a).tl.is_translated = InstanceOf(b).tl.is_translated
  /\ InstanceOf(a).tr.result = InstanceOf(b).tr.result

\* No step after the analysis changes the microcode or the analysis result.
ShaderUntouched ==
  [][sh.is_ucode_analyzed /\ an.pc = "idle"
       => /\ ucode' = ucode
          /\ shader_type' = shader_type
          /\ sh' = sh]_vars

\* C24: each of two translations of the analyzed shader that run
\* interleaved, by two translator instances, has made the hook calls and
\* produced the error list and validity of the same translation run alone,
\* and no translation changes the microcode or the analysis result.
C24_Independent ==
  /\ [](/\ Returned("first") => SameOutcome("first", "alone1")
        /\ Returned("second") => SameOutcome("second", "alone2"))
  /\ ShaderUntouched

\* Both translations have returned after running interleaved, one by a new
\* and one by a used translator, with error lists that differ from each
\* other, and with a mini vertex fetch decoded by each.
C24_Witness ==
  /\ Returned("first")
  /\ Returned("second")
  /\ tr.overlapped
  /\ InstanceOf("first").tl.errors # InstanceOf("second").tl.errors
  /\ InstanceOf("first").tl.errors # <<>>
  /\ \E k \in 1..Len(InstanceOf("second").hooks) :
       /\ InstanceOf("second").hooks[k].hook = "ProcessVertexFetchInstruction"
       /\ InstanceOf("second").hooks[k].op.is_mini_fetch

\* C25: an ALU instruction analyzed with an export-address result while
\* the allocation count n is in 1..kMaxMemExports has set bit n - 1 of the
\* eA-written mask, whether or not its stream constant could be extracted;
\* a constant that could not be extracted is only left out of the stream
\* constants.
C25_AddressBitAlways ==
  JustAnalyzedAlu
    => LET instr == alog[Len(alog)].instr
           n == an.loc.memexport_alloc_count
       IN /\ instr.vector_and_constant_result.storage_target = "kExportAddress"
          /\ n \in 1..kMaxMemExports
          => /\ (n - 1) \in an.loc.memexport_eA_written
             /\ GetMemExportStreamConstant(instr) # UINT32_MAX
                  => GetMemExportStreamConstant(instr)
                       \in sh.memexport_stream_constants

\* With a stream constant that can be extracted the bit is set and the
\* constant recorded.
C25_ExtractedSetsBit ==
  JustAnalyzedAlu
    => LET instr == alog[Len(alog)].instr
           n == an.loc.memexport_alloc_count
       IN /\ instr.vector_and_constant_result.storage_target = "kExportAddress"
          /\ n \in 1..kMaxMemExports
          /\ GetMemExportStreamConstant(instr) # UINT32_MAX
          => /\ (n - 1) \in an.loc.memexport_eA_written
             /\ GetMemExportStreamConstant(instr)
                  \in sh.memexport_stream_constants

\* The memory-type alloc instructions at control-flow indices below c.
MemoryAllocsBelow(c) ==
  Cardinality({k \in 0..(c - 1) :
                 /\ CfIndexed(k).opcode = "kAlloc"
                 /\ CfIndexed(k).alloc_type = "kMemory"})

\* The control-flow index of the exec block being analyzed.
AnalyzedCfIndex == an.i * 2 + an.j

\* The results of the ALU instruction just analyzed that write a component
\* of the export address or of export data.
ExportWrites(instr) ==
  {r \in {instr.vector_and_constant_result, instr.scalar_result} :
     /\ r.storage_target \in {"kExportAddress", "kExportData"}
     /\ GetUsedWriteMask(r) # {}}

\* One ALU instruction of an exec block is analyzed by this step.
AluStep ==
  /\ an.pc = "exec"
  /\ an'.pc = "exec"
  /\ Len(alog') = Len(alog) + 1
  /\ alog'[Len(alog')].ev = "alu"

\* The memexport slots whose record the step changes.
SlotsChanged ==
  {slot \in 0..(kMaxMemExports - 1) :
     sh'.memexport_eM_written[slot] # sh.memexport_eM_written[slot]}
    \cup ((an'.loc.memexport_eA_written \ an.loc.memexport_eA_written)
            \cup (an.loc.memexport_eA_written \ an'.loc.memexport_eA_written))

\* C26: the allocation count an exec block at control-flow index c is
\* analyzed with is the number of memory-type allocs at control-flow
\* indices below c; an ALU instruction records export-address and
\* export-data writes in slot n - 1 only, and only when n is in
\* 1..kMaxMemExports (with n = 0 or n > kMaxMemExports it leaves the
\* memexport record as it was); memexport_eM_written_ has the slots
\* 0..kMaxMemExports-1 only and no eA bit is outside them.
C26_AllocCount ==
  /\ [](/\ an.pc = "exec"
             => an.loc.memexport_alloc_count = MemoryAllocsBelow(AnalyzedCfIndex)
        /\ DOMAIN sh.memexport_eM_written = 0..(kMaxMemExports - 1)
        /\ an.loc.memexport_eA_written \subseteq 0..(kMaxMemExports - 1))
  /\ [][AluStep
          => LET n == an.loc.memexport_alloc_count IN
             /\ SlotsChanged \subseteq {n - 1}
             /\ SlotsChanged # {} => n \in 1..kMaxMemExports
             /\ n \notin 1..kMaxMemExports
                  => sh'.memexport_stream_constants
                       = sh.memexport_stream_constants]_vars

\* An ALU instruction that writes export data or the export address has
\* been analyzed after more than kMaxMemExports memory allocs, and nothing
\* is recorded for any slot.
C26_Witness ==
  /\ JustAnalyzedAlu
  /\ ExportWrites(alog[Len(alog)].instr) # {}
  /\ an.loc.memexport_alloc_count > kMaxMemExports
  /\ an.loc.memexport_alloc_count = MemoryAllocsBelow(AnalyzedCfIndex)
  /\ \A slot \in 0..(kMaxMemExports - 1) : sh.memexport_eM_written[slot] = {}
  /\ an.loc.memexport_eA_written = {}

\* An export-data write has been recorded in the slot of the second of two
\* memory allocs.
C26_WitnessRecorded ==
  /\ JustAnalyzedAlu
  /\ ExportWrites(alog[Len(alog)].instr) # {}
  /\ an.loc.memexport_alloc_count = 2
  /\ sh.memexport_eM_written[1] # {}
  /\ sh.memexport_eM_written[0] = {}

\* The hook the main walk dispatches a control-flow instruction to.
DispatchHook(opcode) ==
  IF IsControlFlowOpcodeExec(opcode)
  THEN "ProcessExecInstructionBegin" ELSE ControlFlowHook(opcode)

\* The hooks that end the control-flow instruction the walk is in.
ClosingHooks(opcode, c) ==
  IF opcode = "none" THEN <<>>
  ELSE (IF IsControlFlowOpcodeExec(opcode)
        THEN <<Hook("ProcessExecInstructionEnd", c)>> ELSE <<>>)
         \o <<Hook("ProcessControlFlowInstructionEnd", c)>>

RECURSIVE HooksOfSteps(_, _, _, _)
\* The hook calls of a main walk that takes the steps log[k], log[k + 1],
\* ... of an analysis walk, the walk being inside the control-flow
\* instruction c with the given opcode ("none" before the first).
HooksOfSteps(log, k, opcode, c) ==
  IF k > Len(log) THEN ClosingHooks(opcode, c)
  ELSE LET step == log[k] IN
       CASE step.ev = "label" ->
              ClosingHooks(opcode, c)
                \o <<Hook("ProcessLabel", step.at)>>
                \o HooksOfSteps(log, k + 1, "none", step.at)
         [] step.ev \in {"alu", "vfetch", "tfetch"} ->
              <<InstructionCall(
                  CASE step.ev = "alu" -> "ProcessAluInstruction"
                    [] step.ev = "vfetch" -> "ProcessVertexFetchInstruction"
                    [] OTHER -> "ProcessTextureFetchInstruction",
                  step.at, step.op, step.instr)>>
                \o HooksOfSteps(log, k + 1, opcode, c)
         [] OTHER ->
              ClosingHooks(opcode, c)
                \o <<Hook("ProcessControlFlowInstructionBegin", step.at)>>
                \o (IF DispatchHook(step.ev) = "none" THEN <<>>
                    ELSE <<Hook(DispatchHook(step.ev), step.at)>>)
                \o HooksOfSteps(log, k + 1, step.ev, step.at)

\* The hook calls of the main walk, without those before and after it.
MainWalkHooks ==
  SelectSeq(hooks,
            LAMBDA call : call.hook \notin {"StartTranslation",
                                            "PreProcessControlFlowInstructions",
                                            "CompleteTranslation",
                                            "PostTranslation"})

\* C27: the main walk of a translation takes the steps of the analysis
\* walk: the same control-flow indices in the same order with the same
\* dispatch, a label where the analysis walk had one, and in each exec block
\* the same instruction offsets, each classified and decoded as the analysis
\* walk classified and decoded it.
C27_SameSteps ==
  LET steps == HooksOfSteps(alog, 1, "none", 0) IN
  /\ tr.pc \in {"main", "exec", "fault"}
       => /\ Len(MainWalkHooks) <= Len(steps)
          /\ MainWalkHooks = SubSeq(steps, 1, Len(MainWalkHooks))
  /\ tr.pc \in {"post", "idle"} /\ hooks # <<>> => MainWalkHooks = steps

\* The instruction reads of both walks were inside the microcode buffer.
ReadsInside ==
  /\ \A k \in 1..Len(alog) :
       alog[k].ev \in {"alu", "vfetch", "tfetch"} => alog[k].at < Len(ucode)
  /\ \A k \in InstructionPositions : hooks[k].at < Len(ucode)

\* The two walks take the same steps when no exec block names an
\* instruction outside the buffer.
C27_SameStepsInside == ReadsInside => C27_SameSteps

\* Bit b of a sequence field.
SequenceBit(sequence, b) == (sequence \div (2 ^ b)) % 2

\* The hook and the view of the instruction that a read triple is given
\* to, by the fetch bit of its slot.
TreatedAs(call, triple, is_fetch) ==
  LET is_vertex == triple.fetch_opcode = "kVertexFetch" IN
  /\ call.hook = "ProcessVertexFetchInstruction" <=> is_fetch /\ is_vertex
  /\ call.hook = "ProcessTextureFetchInstruction" <=> is_fetch /\ ~is_vertex
  /\ call.hook = "ProcessAluInstruction" <=> ~is_fetch
  /\ call.op = (IF ~is_fetch THEN triple.alu
                ELSE IF is_vertex THEN triple.vf ELSE triple.tf)

\* C28: the hook calls for an exec-family instruction with address a,
\* count n and sequence field s are ProcessExecInstructionBegin, then one
\* Process hook per instruction for the offsets a, a + 1, ..., a + n - 1 in
\* that order, then ProcessExecInstructionEnd; the k-th instruction is
\* given to a fetch hook iff bit 2k of s is set (the vertex-fetch hook iff
\* the word read has the vertex-fetch opcode, the texture-fetch hook
\* otherwise) and to the ALU hook otherwise, whatever bit 2k + 1 is.  The
\* instruction hooks and ProcessExecInstructionEnd are called nowhere else.
C28_ExecHooks ==
  /\ \A p \in HookPositions("ProcessExecInstructionBegin") :
       LET c == hooks[p].at
           cf == CfIndexed(c)
           a == cf.address
           n == cf.count
           s == cf.sequence
       IN /\ IsControlFlowOpcodeExec(cf.opcode)
          /\ \A k \in 0..(n - 1) :
               p + 1 + k <= Len(hooks)
                 => /\ hooks[p + 1 + k].hook \in InstructionHooks
                    /\ hooks[p + 1 + k].at = a + k
                    /\ \E triple \in ReadTriple(a + k, GarbageTriples) :
                         TreatedAs(hooks[p + 1 + k], triple,
                                   SequenceBit(s, 2 * k) = 1)
          /\ p + n + 1 <= Len(hooks)
               => hooks[p + n + 1] = Hook("ProcessExecInstructionEnd", c)
          /\ p + n + 1 > Len(hooks)
               => tr.pc \in {"exec", "fault"} /\ tr.cf_index = c
  /\ \A q \in InstructionPositions \cup HookPositions("ProcessExecInstructionEnd") :
       \E p \in HookPositions("ProcessExecInstructionBegin") :
         LET n == CfIndexed(hooks[p].at).count IN
         /\ p < q
         /\ q <= p + n + 1
         /\ q = p + n + 1 <=> hooks[q].hook = "ProcessExecInstructionEnd"

\* A finished exec block of two instructions with both serialize bits set:
\* the first went to the ALU hook, the second to a fetch hook.
C28_Witness ==
  \E p \in HookPositions("ProcessExecInstructionBegin") :
    LET cf == CfIndexed(hooks[p].at) IN
    /\ cf.count = 2
    /\ SequenceBit(cf.sequence, 1) = 1
    /\ SequenceBit(cf.sequence, 3) = 1
    /\ p + 3 <= Len(hooks)
    /\ hooks[p + 1].hook = "ProcessAluInstruction"
    /\ hooks[p + 2].hook = "ProcessVertexFetchInstruction"
    /\ hooks[p + 2].at < Len(ucode)
    /\ hooks[p + 3].hook = "ProcessExecInstructionEnd"

\* A finished exec block whose only instruction has the serialize bit set
\* and went to the texture-fetch hook.
C28_WitnessTexture ==
  \E p \in HookPositions("ProcessExecInstructionBegin") :
    LET cf == CfIndexed(hooks[p].at) IN
    /\ cf.count = 1
    /\ cf.sequence = 3
    /\ p + 2 <= Len(hooks)
    /\ hooks[p + 1].hook = "ProcessTextureFetchInstruction"
    /\ hooks[p + 2].hook = "ProcessExecInstructionEnd"

\* The process hook of each opcode outside the exec family that has one.
OpcodeHooks ==
  {<<"kNop", "ProcessControlFlowNopInstruction">>,
   <<"kLoopStart", "ProcessLoopStartInstruction">>,
   <<"kLoopEnd", "ProcessLoopEndInstruction">>,
   <<"kCondCall", "ProcessCallInstruction">>,
   <<"kReturn", "ProcessReturnInstruction">>,
   <<"kCondJmp", "ProcessJumpInstruction">>,
   <<"kAlloc", "ProcessAllocInstruction">>}

\* The positions of the hook log holding a hook of the main walk that is
\* called for a control-flow instruction as a whole.
WalkPositions ==
  {k \in 1..Len(hooks) :
     hooks[k].hook \in {"ProcessLabel", "ProcessControlFlowInstructionBegin",
                        "ProcessControlFlowInstructionEnd",
                        "ProcessExecInstructionBegin",
                        "ProcessExecInstructionEnd"}
                         \cup {pair[2] : pair \in OpcodeHooks}}

\* C29: the main walk calls ProcessControlFlowInstructionBegin(c) once for
\* each control-flow index c below 2 * bound, in ascending order of c, and
\* ProcessControlFlowInstructionEnd(c) once after it, before the begin of
\* any other index; between the two it calls the hook of the opcode: the
\* nop, loop-start, loop-end, call, return, jump or alloc hook once for the
\* matching opcode, the exec begin and end hooks around the instruction
\* hooks for an opcode of the exec family, and nothing for
\* kMarkVsFetchDone.  A process hook is called only between the begin and
\* the end of its instruction.
C29_BeginDispatchEnd ==
  /\ \A p \in HookPositions("ProcessControlFlowInstructionBegin") :
       LET c == hooks[p].at
           cf == CfIndexed(c)
           own == {pair[2] : pair \in {q \in OpcodeHooks : q[1] = cf.opcode}}
       IN /\ c \in 0..(2 * sh.cf_pair_index_bound - 1)
          /\ \A m \in HookPositions("ProcessControlFlowInstructionBegin") :
               m < p <=> hooks[m].at < c
          /\ IF IsControlFlowOpcodeExec(cf.opcode)
             THEN /\ hooks[p + 1] = Hook("ProcessExecInstructionBegin", c)
                  /\ \A q \in (p + 2)..Len(hooks) :
                       q <= p + 1 + cf.count => q \in InstructionPositions
                  /\ p + 3 + cf.count <= Len(hooks)
                       => /\ hooks[p + 2 + cf.count]
                               = Hook("ProcessExecInstructionEnd", c)
                          /\ hooks[p + 3 + cf.count]
                               = Hook("ProcessControlFlowInstructionEnd", c)
                  /\ p + 3 + cf.count > Len(hooks)
                       => /\ Len(hooks) <= p + 1 + cf.count
                          /\ tr.pc \in {"exec", "fault"}
             ELSE IF own = {}
             THEN /\ cf.opcode = "kMarkVsFetchDone"
                  /\ hooks[p + 1] = Hook("ProcessControlFlowInstructionEnd", c)
             ELSE /\ \E hook \in own : hooks[p + 1] = Hook(hook, c)
                  /\ hooks[p + 2] = Hook("ProcessControlFlowInstructionEnd", c)
  /\ \A q \in WalkPositions \ HookPositions("ProcessControlFlowInstructionBegin") :
       IF hooks[q].hook = "ProcessLabel"
       THEN hooks[q + 1] = Hook("ProcessControlFlowInstructionBegin", hooks[q].at)
       ELSE \E p \in HookPositions("ProcessControlFlowInstructionBegin") :
              /\ p < q
              /\ hooks[p].at = hooks[q].at
              /\ \A m \in (p + 1)..(q - 1) :
                   hooks[m].hook \notin {"ProcessControlFlowInstructionBegin",
                                         "ProcessControlFlowInstructionEnd"}
  /\ \A p, q \in HookPositions("ProcessControlFlowInstructionEnd") :
       hooks[p].at = hooks[q].at => p = q
  /\ tr.pc \in {"post", "idle"} /\ hooks # <<>>
       => \A c \in 0..(2 * sh.cf_pair_index_bound - 1) :
            /\ \E p \in HookPositions("ProcessControlFlowInstructionBegin") :
                 hooks[p].at = c
            /\ \E p \in HookPositions("ProcessControlFlowInstructionEnd") :
                 hooks[p].at = c

\* A finished translation of four control-flow instructions, one of them
\* kMarkVsFetchDone, whose begin hook was directly followed by its end
\* hook, another one a return.
C29_Witness ==
  /\ Translated
  /\ sh.cf_pair_index_bound = 2
  /\ Cardinality(HookPositions("ProcessControlFlowInstructionEnd")) = 4
  /\ \E p \in HookPositions("ProcessControlFlowInstructionBegin") :
       /\ CfIndexed(hooks[p].at).opcode = "kMarkVsFetchDone"
       /\ hooks[p + 1].hook = "ProcessControlFlowInstructionEnd"
  /\ HookPositions("ProcessReturnInstruction") # {}

\* A finished translation with an exec block between the begin and end
\* hooks of its control-flow instruction.
C29_WitnessExec ==
  /\ Translated
  /\ \E p \in HookPositions("ProcessControlFlowInstructionBegin") :
       /\ p + 4 <= Len(hooks)
       /\ hooks[p + 1].hook = "ProcessExecInstructionBegin"
       /\ hooks[p + 2].hook \in InstructionHooks
       /\ hooks[p + 3].hook = "ProcessExecInstructionEnd"
       /\ hooks[p + 4].hook = "ProcessControlFlowInstructionEnd"

\* The control-flow instructions inside the program bound.
WalkedControlFlow ==
  {CfIndexed(c) : c \in 0..(2 * sh.cf_pair_index_bound - 1)}

\* C30: after analysis, bit b of the bool-constant bitmap is set iff inside
\* the program bound there is a kCondExec, kCondExecEnd, kCondExecPredClean
\* or kCondExecPredCleanEnd with bool address b, or a kCondCall or kCondJmp
\* with bool address b that is neither unconditional nor predicated.
C30_BoolBitmap ==
  Analyzed
    => sh.bool_bitmap
         = {cf.bool_address :
              cf \in {w \in WalkedControlFlow :
                        \/ w.opcode \in {"kCondExec", "kCondExecEnd",
                                         "kCondExecPredClean",
                                         "kCondExecPredCleanEnd"}
                        \/ /\ w.opcode \in {"kCondCall", "kCondJmp"}
                           /\ w.ctype = "cond"}}

\* An analyzed program of two pairs inside the bound with a conditional
\* call with bool address 1, an unconditional call with bool address 4 and
\* a predicated exec: bit 1 is the only one set.
C30_Witness ==
  /\ Analyzed
  /\ sh.cf_pair_index_bound >= 2
  /\ \E w \in WalkedControlFlow :
       w.opcode = "kCondCall" /\ w.ctype = "cond" /\ w.bool_address = 1
  /\ \E w \in WalkedControlFlow :
       w.opcode = "kCondCall" /\ w.ctype = "uncond" /\ w.bool_address = 4
  /\ \E w \in WalkedControlFlow : w.opcode = "kCondExecPredEnd"
  /\ sh.bool_bitmap = {1}

\* An analyzed program with a conditional exec with bool address 3 and a
\* predicated jump with bool address 2 inside the bound: bit 3 is the only
\* one set.
C30_WitnessExec ==
  /\ Analyzed
  /\ \E w \in WalkedControlFlow : w.opcode = "kCondExec" /\ w.bool_address = 3
  /\ \E w \in WalkedControlFlow :
       w.opcode = "kCondJmp" /\ w.ctype = "pred" /\ w.bool_address = 2
  /\ sh.bool_bitmap = {3}

\* TranslateAnalyzedShader is between StartTranslation and its return.
TranslationRuns == tr.pc \in {"preprocess", "main", "exec", "post"}

\* The main walk went through every control-flow instruction inside the
\* bound, with its begin and end hooks, and CompleteTranslation was called.
WalkedToTheEnd ==
  /\ \A c \in 0..(2 * sh.cf_pair_index_bound - 1) :
       /\ \E k \in HookPositions("ProcessControlFlowInstructionBegin") :
            hooks[k].at = c
       /\ \E k \in HookPositions("ProcessControlFlowInstructionEnd") :
            hooks[k].at = c
  /\ HookPositions("CompleteTranslation") # {}

\* Every exec block inside the bound names instructions of the buffer only.
ExecsInside ==
  \A c \in 0..(2 * sh.cf_pair_index_bound - 1) :
    IsControlFlowOpcodeExec(CfIndexed(c).opcode)
      => CfIndexed(c).address + CfIndexed(c).count <= Len(ucode)

\* C31: a fatal error does not stop the main walk: a translation reaches
\* CompleteTranslation only through every control-flow instruction inside
\* the bound, and every translation that has started eventually calls
\* PostTranslation and returns.
C31_Terminates ==
  /\ [](tr.pc \in {"post", "idle"} /\ hooks # <<>> => WalkedToTheEnd)
  /\ TranslationRuns ~> (tr.pc = "idle" /\ PostTranslationCalled)

\* The same for the translations whose exec blocks stay inside the buffer.
C31_TerminatesInside ==
  /\ [](tr.pc \in {"post", "idle"} /\ hooks # <<>> => WalkedToTheEnd)
  /\ (TranslationRuns /\ ExecsInside)
       ~> (tr.pc = "idle" /\ PostTranslationCalled)

\* The thread's call went past the guard into the accumulating body (the
\* body leaves the first loop counter above 0 for a bound above 0).
RanBody(thread) == thread.pc # "idle" \/ thread.i > 0

\* The instructions a single walk over the buffer gives to a fetch of the
\* kind: control-flow index and instruction offset.
WalkedFetches(bound, opcode) ==
  {site \in (0..(2 * bound - 1)) \X (0..(Len(ucode) - 1)) :
     LET cf == CfIndexed(site[1])
         k == site[2] - cf.address
     IN /\ IsControlFlowOpcodeExec(cf.opcode)
        /\ k \in 0..(cf.count - 1)
        /\ SequenceBit(cf.sequence, 2 * k) = 1
        /\ (ucode[site[2] + 1].fetch_opcode = "kVertexFetch")
             <=> opcode = "kVertexFetch"}

RECURSIVE SumOfLengths(_, _)
SumOfLengths(lists, k) ==
  IF k = 0 THEN 0 ELSE Len(lists[k]) + SumOfLengths(lists, k - 1)

\* The number of attributes in all vertex bindings.
VertexAttributes ==
  SumOfLengths([k \in 1..Len(sh.vertex_bindings) |->
                  sh.vertex_bindings[k].attributes],
               Len(sh.vertex_bindings))

\* Both threads have made their call and returned.
BothReturned ==
  /\ an.calls = 1 /\ an.pc = "idle"
  /\ an.other.calls = 1 /\ an.other.pc = "idle"

\* C32 as claimed: whatever the interleaving of the two calls, at most one
\* of them runs the accumulating body, and once both have returned the
\* shader has the texture-binding entries and vertex attributes of a single
\* walk.
C32_Original ==
  /\ ~(RanBody(an) /\ RanBody(an.other))
  /\ BothReturned
       => /\ Len(sh.texture_bindings)
               = Cardinality(WalkedFetches(sh.cf_pair_index_bound,
                                           "kTextureFetch"))
          /\ VertexAttributes
               = Cardinality(WalkedFetches(sh.cf_pair_index_bound,
                                           "kVertexFetch"))

\* C32, amended: a call that starts once another call has set
\* is_ucode_analyzed_ returns at once and changes nothing, so when the call
\* of one thread starts after the call of the other has completed the body
\* has run once and the shader has the texture-binding entries and vertex
\* attributes of a single walk.  (Two calls that overlap both pass the
\* guard and both run the body.)
C32_SerializedOnce ==
  /\ [][sh.is_ucode_analyzed /\ an'.id = an.id /\ an'.calls = an.calls + 1
          => an'.pc = "idle" /\ sh' = sh]_vars
  /\ [](BothReturned /\ ~(RanBody(an) /\ RanBody(an.other))
          => /\ RanBody(an) \/ RanBody(an.other)
             /\ Len(sh.texture_bindings)
                  = Cardinality(WalkedFetches(sh.cf_pair_index_bound,
                                              "kTextureFetch"))
             /\ VertexAttributes
                  = Cardinality(WalkedFetches(sh.cf_pair_index_bound,
                                              "kVertexFetch")))

\* The second thread has called after the call of the first had completed:
\* it returned at once, and the shader has one texture-binding entry and
\* one vertex attribute for the program's two fetches.
C32_Witness ==
  /\ BothReturned
  /\ RanBody(an.other)
  /\ ~RanBody(an)
  /\ Len(sh.texture_bindings) = 1
  /\ VertexAttributes = 1

\* The two calls overlapped, both ran the body, and the shader holds two
\* texture-binding entries for the program's one texture fetch.
C32_WitnessOverlap ==
  /\ BothReturned
  /\ RanBody(an)
  /\ RanBody(an.other)
  /\ Cardinality(WalkedFetches(sh.cf_pair_index_bound, "kTextureFetch")) = 1
  /\ Len(sh.texture_bindings) = 2

\* The new translator that translates the same shader with the same
\* backend as the instance.
FreshOf(id) == IF id = "first" THEN "alone1" ELSE "alone2"

\* The hook calls of the instance for vertex mini fetches that no full
\* fetch precedes.
LeadingMiniFetches(id) ==
  LET calls == InstanceOf(id).hooks IN
  {k \in 1..Len(calls) :
     /\ calls[k].hook = "ProcessVertexFetchInstruction"
     /\ calls[k].op.is_mini_fetch
     /\ \A m \in 1..(k - 1) :
          calls[m].hook = "ProcessVertexFetchInstruction"
            => calls[m].op.is_mini_fetch}

\* C33: a translator that has translated other shaders before starts a
\* translation with an empty error list and a zeroed previous-full-fetch
\* cache, and once it has returned it has made the hook calls (a mini fetch
\* before any full fetch decoded from the zeroed cache) and produced the
\* error list, validity and return value of a new translator.
C33_NoCarryOver ==
  \A id \in {"first", "second"} :
    LET used == InstanceOf(id)
        fresh == InstanceOf(FreshOf(id))
    IN used.tr.used
         => /\ used.tr.calls > 0 /\ Len(used.hooks) = 1
              => /\ used.tr.previous_vfetch_full = ZeroVertexFetch
                 /\ used.tr.errors
                      = (IF used.backend.emits = "StartTranslation"
                         THEN EmitTranslationError(<<>>, "StartTranslation",
                                                   used.backend.is_fatal)
                         ELSE <<>>)
                 /\ used.hooks = SubSeq(fresh.hooks, 1, 1)
            /\ Returned(id)
                 => /\ used.hooks = fresh.hooks
                    /\ used.tl = fresh.tl
                    /\ used.tr.result = fresh.tr.result
                    /\ \A k \in LeadingMiniFetches(id) :
                         used.hooks[k].instr
                           = ParseVertexFetchInstruction(used.hooks[k].op,
                                                         ZeroVertexFetch)

\* A used translator has returned from a translation with a mini fetch
\* before any full fetch and with an error of its backend; its stale fatal
\* error is not in the translation's error list.
C33_Witness ==
  /\ Returned("first")
  /\ InstanceOf("first").tr.used
  /\ LeadingMiniFetches("first") # {}
  /\ Len(InstanceOf("first").tl.errors) = 1
  /\ InstanceOf("first").tl.errors[1].message = "ProcessExecInstructionBegin"
  /\ ~InstanceOf("first").tl.is_valid

\* The export-address writes the analysis recorded a stream constant for:
\* <<slot, constant>> for each analyzed ALU instruction with an extracted
\* stream constant, in an exec block of the program that is analyzed after
\* slot + 1 memory allocs, slot < kMaxMemExports.
RecordedAddressWrites ==
  {<<MemoryAllocsBelow(x[2]) - 1, GetMemExportStreamConstant(alog[x[1]].instr)>> :
     x \in {y \in (DOMAIN alog) \X (0..(2 * sh.cf_pair_index_bound - 1)) :
              /\ alog[y[1]].ev = "alu"
              /\ alog[y[1]].instr.vector_and_constant_result.storage_target
                   = "kExportAddress"
              /\ GetMemExportStreamConstant(alog[y[1]].instr) # UINT32_MAX
              /\ IsControlFlowOpcodeExec(CfIndexed(y[2]).opcode)
              /\ CfIndexed(y[2]).address <= alog[y[1]].at
              /\ alog[y[1]].at < CfIndexed(y[2]).address + CfIndexed(y[2]).count
              /\ MemoryAllocsBelow(y[2]) \in 1..kMaxMemExports}}

\* The memexport slots that survived the cleanup.
SurvivingSlots ==
  {i \in an.loc.memexport_eA_written : sh.memexport_eM_written[i] # {}}

\* C34 as stated: after analysis, every memexport stream constant was
\* recorded by an export-address write whose slot survived the cleanup;
\* the constants of a slot whose eA bit was cleared are not left in the set.
C34_Original ==
  Analyzed =>
    \A c \in sh.memexport_stream_constants :
      \E w \in RecordedAddressWrites :
        w[2] = c /\ w[1] \in SurvivingSlots

\* C34: after analysis, every memexport stream constant was recorded by an
\* export-address write analyzed with an allocation count in
\* 1..kMaxMemExports; the set is emptied only when no slot survived the
\* cleanup, and while any slot survives it holds the constants of all
\* those writes, those of a slot whose eA bit was cleared included.
C34_StreamConstants ==
  Analyzed =>
    /\ \A c \in sh.memexport_stream_constants :
         \E w \in RecordedAddressWrites : w[2] = c
    /\ sh.memexport_stream_constants # {} => SurvivingSlots # {}
    /\ SurvivingSlots # {}
         => \A w \in RecordedAddressWrites :
              w[2] \in sh.memexport_stream_constants

\* An analysis is done in which slot 1 survived the cleanup and slot 0,
\* whose export address was written with stream constant 12 and whose
\* export data was not written, did not: 12 is still in the set.
C34_Witness ==
  /\ Analyzed
  /\ SurvivingSlots = {1}
  /\ <<0, 12>> \in RecordedAddressWrites
  /\ \A w \in RecordedAddressWrites : w[2] = 12 => w[1] = 0
  /\ 12 \in sh.memexport_stream_constants

\* The label addresses contributed by the control-flow instructions of pairs
\* 0..k-1.
LabelsOfPairs(k) ==
  {CfAt(x[1], x[2]).address :
     x \in {y \in (0..(k - 1)) \X {0, 1} : HasTargetAddress(CfAt(y[1], y[2]))}}

\* C35 as stated: after analysis, every label address was contributed by a
\* control-flow instruction of a pair below the final bound.
C35_Original ==
  Analyzed => sh.label_addresses \subseteq LabelsOfPairs(sh.cf_pair_index_bound)

\* C35: after analysis, every label address was contributed by a
\* control-flow instruction of a pair the scan examined, one whose index
\* was below the bound as it stood when the scan reached the pair; an exec
\* of that pair or of a later examined pair may have shrunk the final bound
\* to the pair's index or below it.
C35_LabelsOfExaminedPairs ==
  Analyzed => sh.label_addresses \subseteq LabelsOfPairs(ScanLength)

\* An analysis is done whose label set has an address that no instruction
\* below the final bound contributes: it comes from an examined pair at or
\* above the final bound, and the buffer has pairs the scan did not examine.
C35_Witness ==
  /\ Analyzed
  /\ sh.cf_pair_index_bound < ScanLength
  /\ ScanLength < Len(ucode)
  /\ \E address \in sh.label_addresses :
       /\ address \notin LabelsOfPairs(sh.cf_pair_index_bound)
       /\ address \in LabelsOfPairs(ScanLength)

\* C36: for every attribute stored in a vertex binding, the binding's
\* fetch_constant is the storage_index of the vertex-fetch-constant operand
\* of the attribute's parsed fetch instruction, mini fetches included.
C36_BindingOfAttribute ==
  \A i \in 1..Len(sh.vertex_bindings) :
    LET binding == sh.vertex_bindings[i] IN
    \A k \in 1..Len(binding.attributes) :
      /\ binding.attributes[k].operands[2].storage_source
           = "kVertexFetchConstant"
      /\ binding.attributes[k].operands[2].storage_index
           = binding.fetch_constant

\* The same for the attributes of full fetches only.
C36_BindingOfFullFetch ==
  \A i \in 1..Len(sh.vertex_bindings) :
    LET binding == sh.vertex_bindings[i] IN
    \A k \in 1..Len(binding.attributes) :
      ~binding.attributes[k].is_mini_fetch
        => binding.attributes[k].operands[2].storage_index
             = binding.fetch_constant

\* A full fetch of fetch constant 3 and then a mini fetch of fetch constant
\* 2 have been analyzed: the mini fetch made a binding of fetch constant 2
\* whose attribute reads fetch constant 3.
C36_MiniOfOtherSlot ==
  /\ Analyzed
  /\ Len(sh.vertex_bindings) = 2
  /\ sh.vertex_bindings[1].fetch_constant = 3
  /\ sh.vertex_bindings[2].fetch_constant = 2
  /\ sh.vertex_bindings[2].attributes[1].is_mini_fetch
  /\ sh.vertex_bindings[2].attributes[1].operands[2].storage_index = 3

\* C37: every instruction read of an exec block, in analysis and in
\* translation, is inside the microcode buffer: no read faults or yields
\* what follows the buffer, and every exec-family instruction inside the
\* bound has address + count at most the number of triples of the buffer.
C37_ReadsInBuffer ==
  /\ an.pc # "fault"
  /\ tr.pc # "fault"
  /\ \A k \in 1..Len(alog) :
       alog[k].ev \in {"alu", "vfetch", "tfetch"} => alog[k].at < Len(ucode)
  /\ \A k \in InstructionPositions : hooks[k].at < Len(ucode)
  /\ Analyzed =>
       \A c \in 0..(2 * sh.cf_pair_index_bound - 1) :
         IsControlFlowOpcodeExec(CfIndexed(c).opcode)
           => CfIndexed(c).address + CfIndexed(c).count <= Len(ucode)

\* The analysis has read, as an instruction of an exec block inside the
\* bound, the triple after the last one of the buffer.
C37_AnalysisReadOutside ==
  /\ an.pc = "exec"
  /\ alog # <<>>
  /\ alog[Len(alog)].ev \in {"alu", "vfetch", "tfetch"}
  /\ alog[Len(alog)].at = Len(ucode)

\* The translation has read it too and handed it to a backend hook.
C37_TranslationReadOutside ==
  /\ tr.pc = "exec"
  /\ \E k \in InstructionPositions : hooks[k].at = Len(ucode)

\* The exec-family control-flow instructions at control-flow indices below
\* twice the final bound.
ExecsInBound ==
  {c \in 0..(2 * sh.cf_pair_index_bound - 1) :
     CfIndexed(c).opcode \in {"kExec", "kExecEnd", "kCondExec", "kCondExecEnd",
                              "kCondExecPred", "kCondExecPredEnd",
                              "kCondExecPredClean", "kCondExecPredCleanEnd"}}

\* C38: after analysis, every exec-family control-flow instruction inside
\* the final bound has a target address of at least cf_pair_index_bound_,
\* and no instruction the analysis walk reads in an exec block lies inside
\* the control-flow region; the translation walks the exec blocks of the
\* same control-flow instructions.
C38_ExecsStartAfterBound ==
  /\ Analyzed
       => \A c \in ExecsInBound :
            CfIndexed(c).address >= sh.cf_pair_index_bound
  /\ an.pc = "exec" => an.instr.offset >= sh.cf_pair_index_bound
  /\ \A k \in 1..Len(alog) :
       alog[k].ev \in {"alu", "vfetch", "tfetch"}
         => alog[k].at >= sh.cf_pair_index_bound

\* An analysis is done whose bound holds two pairs and an exec block that
\* starts right at the bound, which an exec of a larger address did not
\* set.
C38_Witness ==
  /\ Analyzed
  /\ sh.cf_pair_index_bound = 2
  /\ sh.cf_pair_index_bound < Len(ucode)
  /\ \E c, d \in ExecsInBound :
       /\ CfIndexed(c).address = sh.cf_pair_index_bound
       /\ CfIndexed(d).address > sh.cf_pair_index_bound

=============================================================================
